---- MODULE Spec2Model ----
(***************************************************************************)
(* Agent Session Controller of claude-linear-agent: the webhook handler    *)
(* (server.ts), the webhook helpers (lib.ts), the Session Runner runAgent  *)
(* with its SessionStore (agent.ts) and emitActivity (linear-api.ts).      *)
(*                                                                         *)
(* One action per synchronous section of the code: a section starts where  *)
(* an await resumes and ends at the next await, so the interleavings of    *)
(* the model are the interleavings of the single-threaded event loop.      *)
(***************************************************************************)
EXTENDS Integers, Sequences, FiniteSets, TLC

None == "none"

\* ---------------------------------------------------------------------------
\* Bounds of the model
\* ---------------------------------------------------------------------------
MaxRequests == 2
MaxTicks == 2
MaxMessages == 1
MaxFaults == 1
MaxWrites == 2
MaxOps == 3
MaxText == 4
WriteChunks == 2
RunRequests == 1
SelfRequests == 2
StopRequests == 3
HandleRequests == 2
ResumeRequests == 1
RetryRequests == 2
SkipRequests == 3
CaptureRequests == 1
MaxCaptured == 2
FinalRequests == 1
MaxBlocks == 3
ClassifyRequests == 2
UpdateRequests == 2
UnknownRequests == 2
TwiceRequests == 3
IsolationRequests == 2
RestartRequests == 2
MaxRestarts == 1
MaxRecords == 2
MaxOld == 2
ForgedRequests == 2
BadRequests == 2

\* ---------------------------------------------------------------------------
\* Program constants and the clock
\* ---------------------------------------------------------------------------
SESSION_TTL_MS == 60 * 60 * 1000
MAX_SESSIONS == 1000
\* Time is counted in steps of half a TTL; Date.now() is positive.
TickMs == 30 * 60 * 1000
StartTime == TickMs

Sessions == {"s1", "s2"}
ActivityIds == {"a1", "a2"}
AgentId == "agent"
UserId == "user"
Secret == "secret"

VARIABLES
    now,                \* the last reading of Date.now()
    processedSessions,  \* server.ts: Map<string, number>, dedup key -> timestamp
    runningAgents,      \* server.ts: Map<string, AbortController>, session id -> run
    requests,           \* the webhook requests, in order of arrival
    runs,               \* the runAgent invocations, by the request that started them
    sessionStore,       \* agent.ts: the SessionStore cache
    file,               \* the session-map.json file on disk
    activities,         \* per session, the emitActivity calls that completed
    budget,             \* what the environment may still do (requests, faults, ...)
    fs,                 \* the directory of session-map.json: paths and inodes
    procs,              \* the controller processes that write session-map.json
    ledger,             \* the set and delete calls made on the SessionStore, in order
    draft,              \* a text the agent produced (text block, tool input, error)
    outbox,             \* the activity content composed from it
    WEBHOOK_SECRET      \* server.ts: process.env.LINEAR_WEBHOOK_SECRET, read at start

\* The state of the webhook server of one process, and the state beside it.
server == <<now, processedSessions, runningAgents, requests, runs, sessionStore,
            file, activities, budget>>
aside == <<fs, procs, ledger, draft, outbox, WEBHOOK_SECRET>>
vars == <<server, aside>>

\* ---------------------------------------------------------------------------
\* Payloads (lib.ts: LinearWebhookPayload, after signature check and parse)
\* ---------------------------------------------------------------------------
\* payload.data of an event that carries none, written as a record of the
\* shape of the others.
NoData ==
    [present |-> FALSE, id |-> None, userId |-> None, mention |-> FALSE,
     projectUpdateId |-> None, oauthEmail |-> FALSE]

\* creatorId stands for  session.creatorId || session.creator?.id,
\* appUserId for  payload.appUserId || session.appUserId  (None: both absent).
CreatedPayload(s, creator, app, issue) ==
    [type |-> "AgentSessionEvent", action |-> "created", session |-> s,
     creatorId |-> creator, appUserId |-> app, issue |-> issue,
     activityId |-> None, signal |-> None, body |-> "", data |-> NoData]

PromptedPayload(s, creator, app, issue, a, signal, body) ==
    [type |-> "AgentSessionEvent", action |-> "prompted", session |-> s,
     creatorId |-> creator, appUserId |-> app, issue |-> issue,
     activityId |-> a, signal |-> signal, body |-> body, data |-> NoData]

\* An event of another type: payload.data with its id and author; mention:
\* /@claude/i matches the body that decides the branch (data.body of a project
\* update, data.projectUpdate.body of a comment); oauthEmail: data.user.email
\* is an address of an OAuth application. appUserId is payload.appUserId.
DataPayload(type, action, app, data) ==
    [type |-> type, action |-> action, session |-> None,
     creatorId |-> None, appUserId |-> app, issue |-> FALSE,
     activityId |-> None, signal |-> None, body |-> "", data |-> data]

ProjectUpdatePayload(action, app, id, userId, mention) ==
    DataPayload("ProjectUpdate", action, app,
                [present |-> TRUE, id |-> id, userId |-> userId, mention |-> mention,
                 projectUpdateId |-> None, oauthEmail |-> FALSE])

CommentPayload(action, app, id, userId, update, mention, oauthEmail) ==
    DataPayload("Comment", action, app,
                [present |-> TRUE, id |-> id, userId |-> userId, mention |-> mention,
                 projectUpdateId |-> update, oauthEmail |-> oauthEmail])

\* The body "null": JSON.parse returns null, which has no properties.
JsonNull == DataPayload("null", None, None, NoData)

\* payload.type  (server.ts 93-98): reading a property of null throws.
payloadTypeThrows(payload) == payload.type = "null"

\* lib.ts 233-239
isProjectUpdateMention(payload) ==
    payload.type = "ProjectUpdate" /\ payload.action = "create" /\ payload.data.mention

\* lib.ts 244-249: data.userId === payload.appUserId, absent ids included.
isProjectUpdateSelfTrigger(payload) ==
    IF ~payload.data.present THEN FALSE
    ELSE payload.data.userId = payload.appUserId

\* A comment created on a project update whose body mentions the agent.
isProjectUpdateCommentForClaude(payload) ==
    /\ payload.type = "Comment"
    /\ payload.action = "create"
    /\ payload.data.projectUpdateId # None
    /\ payload.data.mention

\* The author is payload.appUserId, or the author's e-mail address is one of
\* an OAuth application.
isProjectUpdateCommentSelfTrigger(payload) ==
    IF ~payload.data.present THEN FALSE
    ELSE \/ payload.appUserId # None /\ payload.data.userId = payload.appUserId
         \/ payload.data.oauthEmail

isAgentSessionCreated(payload) ==
    payload.type = "AgentSessionEvent" /\ payload.action = "created"

isAgentSessionPrompted(payload) ==
    payload.type = "AgentSessionEvent" /\ payload.action = "prompted"

\* Mutant: a follow-up without a message gets a default one.
getPromptedMessage_Default(payload) ==
    IF payload.body # "" THEN payload.body ELSE "continue"

\* payload.agentActivity?.content?.body || null   ("" is falsy)
getPromptedMessage(payload) ==
    IF payload.body # "" THEN payload.body ELSE None

\* Mutant: a stop marker counts only on an activity without text.
isStopSignal_NoText(payload) == payload.signal = "stop" /\ payload.body = ""

isStopSignal(payload) == payload.signal = "stop"

isSelfTrigger(payload) ==
    IF payload.creatorId = None \/ payload.appUserId = None
    THEN FALSE
    ELSE payload.creatorId = payload.appUserId

\* Mutant: the follow-up key leaves out the sub-event id.
dedupeKey_SessionOnly(payload) == <<payload.session, "unknown">>

\* Mutant: a follow-up without a sub-event id is keyed by its message.
dedupeKey_Message(payload) ==
    <<payload.session,
      IF payload.activityId # None THEN payload.activityId ELSE payload.body>>

\* `${session.id}:${payload.agentActivity?.id || "unknown"}`
dedupeKey(payload) ==
    <<payload.session,
      IF payload.activityId # None THEN payload.activityId ELSE "unknown">>

\* The created branch keys the registry by session.id alone.
sessionKey(payload) == <<payload.session>>

\* A request body that is not JSON. It has no fields; it is written as a
\* record of the same shape so that the request list is homogeneous.
Garbage ==
    [type |-> "garbage", action |-> None, session |-> None,
     creatorId |-> None, appUserId |-> None, issue |-> FALSE,
     activityId |-> None, signal |-> None, body |-> "", data |-> NoData]

\* parseWebhookPayload: JSON.parse(body) throws on a body that is not JSON.
parseWebhookPayloadThrows(body) == body.type = "garbage"

\* ---------------------------------------------------------------------------
\* Signature Verifier (lib.ts: verifySignature)
\* ---------------------------------------------------------------------------
\* createHmac("sha256", key).update(body).digest("hex"): 64 hex characters
\* that determine key and body (a keyed hash without collisions).
HexLength == 64
Digest(key, body) == [present |-> TRUE, length |-> HexLength, of |-> <<key, body>>]

\* A header value that is no digest: a string of the given length.
Forged(length) == [present |-> TRUE, length |-> length, of |-> <<>>]

\* c.req.header("linear-signature") of a request without the header.
NoHeader == [present |-> FALSE, length |-> 0, of |-> <<>>]

\* createHmac throws a TypeError when the key is undefined.
createHmacThrows(secret) == secret = None

\* timingSafeEqual(a, b) throws when the lengths differ, else compares.
timingSafeEqualThrows(a, b) == a.length # b.length
timingSafeEqual(a, b) == a = b

\* !signature : the header is absent (null) or the empty string.
NoSignature(signature) == ~signature.present \/ signature.length = 0

\* The call throws when createHmac does; the throw of timingSafeEqual is
\* caught inside (lib.ts 144-148).
verifySignatureThrows(signature, secret) ==
    ~NoSignature(signature) /\ createHmacThrows(secret)

verifySignature(body, signature, secret) ==
    IF NoSignature(signature)
    THEN FALSE
    ELSE LET expected == Digest(secret, body)
         IN  IF timingSafeEqualThrows(signature, expected)
             THEN FALSE
             ELSE timingSafeEqual(signature, expected)

\* The linear-signature header a sender attaches to a body: the digest under
\* the shared secret; none; the empty string; the digest of another body;
\* the digest under another key; a digest cut short; any other 64 characters.
SignatureKinds ==
    {"signed", "missing", "empty", "tampered", "wrong-key", "short", "forged"}
Signature(kind, body) ==
    CASE kind = "signed"    -> Digest(Secret, body)
      [] kind = "missing"   -> NoHeader
      [] kind = "empty"     -> Forged(0)
      [] kind = "tampered"  -> Digest(Secret, [body EXCEPT !.type = "other"])
      [] kind = "wrong-key" -> Digest("another secret", body)
      [] kind = "short"     -> Forged(HexLength - 1)
      [] kind = "forged"    -> Forged(HexLength)

\* ---------------------------------------------------------------------------
\* Session Registry (server.ts)
\* ---------------------------------------------------------------------------
\* Mutant: an entry still blocks at the age of exactly the TTL.
isSessionProcessed_Inclusive(map, key, t) ==
    /\ key \in DOMAIN map
    /\ map[key] # 0
    /\ t - map[key] <= SESSION_TTL_MS

\* Mutant: the age test is inverted.
isSessionProcessed_Inverted(map, key, t) ==
    /\ key \in DOMAIN map
    /\ map[key] # 0
    /\ t - map[key] > SESSION_TTL_MS

\* A recorded timestamp is truthy: Date.now() is never 0.
isSessionProcessed(map, key, t) ==
    /\ key \in DOMAIN map
    /\ map[key] # 0
    /\ t - map[key] < SESSION_TTL_MS

MapSet(map, key, val) ==
    [k \in DOMAIN map \cup {key} |-> IF k = key THEN val ELSE map[k]]

MapDelete(map, key) ==
    [k \in DOMAIN map \ {key} |-> map[k]]

\* Mutant: at capacity the sweep drops every entry.
markSessionProcessed_Clear(map, key, t) ==
    LET swept == IF Cardinality(DOMAIN map) >= MAX_SESSIONS
                 THEN [k \in {} |-> 0]
                 ELSE map
    IN  MapSet(swept, key, t)

\* Mutant: the key is not recorded.
markSessionProcessed_Forget(map, key, t) == map

markSessionProcessed(map, key, t) ==
    LET swept == IF Cardinality(DOMAIN map) >= MAX_SESSIONS
                 THEN [k \in {j \in DOMAIN map : ~(t - map[j] > SESSION_TTL_MS)}
                          |-> map[k]]
                 ELSE map
    IN  MapSet(swept, key, t)

\* ---------------------------------------------------------------------------
\* Resumption Store (agent.ts: SessionStore)
\* ---------------------------------------------------------------------------
EmptyMap == [k \in {} |-> None]
FileMissing == [exists |-> FALSE, data |-> EmptyMap, kind |-> "object"]

\* A file that does not hold a mapping. kind: "unreadable" (readFileSync
\* throws), "garbage" (not JSON), "null", "array", "scalar" (JSON, no object).
\* data: the mapping a reader would see that took the bytes for one.
BadKinds == {"unreadable", "garbage", "null", "array", "scalar"}
BadFile(kind) ==
    [exists |-> TRUE, data |-> [k \in {"s1"} |-> "c0"], kind |-> kind]

\* The cache is a plain object, {} or the result of JSON.parse: a key that is
\* not an own property is looked up on Object.prototype.
InheritedKeys == {"constructor"}
Inherited(k) == "[Function: Object]"

\* data[k]
ObjectGet(data, k) ==
    IF k \in DOMAIN data THEN data[k]
    ELSE IF k \in InheritedKeys THEN Inherited(k) ELSE None

\* k in data
ObjectHas(data, k) == k \in DOMAIN data \/ k \in InheritedKeys

\* new SessionStore(path)
NewStore == [loaded |-> FALSE, data |-> EmptyMap]

\* readFileSync(this.path, "utf-8") throws
readFileSyncThrows(f) == f.kind = "unreadable"
\* JSON.parse throws
JSONParseThrows(f) == f.kind = "garbage"
\* typeof cache !== "object" || cache === null || Array.isArray(cache)
InvalidFormat(f) == f.kind \in {"null", "array", "scalar"}

\* Mutant: load takes whatever the file holds for the mapping.
SessionStoreLoad_Trust(store, f) ==
    IF store.loaded THEN store
    ELSE [loaded |-> TRUE, data |-> IF f.exists THEN f.data ELSE EmptyMap]

\* load(): the file is read once, on first access; every exception of the
\* read, the parse and the format check is caught and leaves the empty cache.
SessionStoreLoad(store, f) ==
    IF store.loaded THEN store
    ELSE IF ~f.exists THEN [loaded |-> TRUE, data |-> EmptyMap]
    ELSE IF readFileSyncThrows(f) \/ JSONParseThrows(f) \/ InvalidFormat(f)
    THEN [loaded |-> TRUE, data |-> EmptyMap]
    ELSE [loaded |-> TRUE, data |-> f.data]

SessionStoreGet(store, f, s) ==
    ObjectGet(SessionStoreLoad(store, f).data, s)

\* write(data): writeFileSync to the .tmp path, then renameSync over the file
SessionStoreWrite(data) == [exists |-> TRUE, data |-> data, kind |-> "object"]

\* delete data[linearSessionId], on the loaded cache
SessionStoreDelete(data, s) == MapDelete(data, s)

\* ---------------------------------------------------------------------------
\* Texts (lib.ts: parseForClarification; agent.ts: sanitizeMentions)
\* ---------------------------------------------------------------------------
\* A text is a sequence of tokens. "@" and " " are characters, "claude" and
\* "Claude" the agent's name, Filler a run of 100 characters without "@",
\* letters or white space, Cut the fragment of a token that a slice cut.
CLARIFICATION_MARKER == "[NEEDS_CLARIFICATION]"
Filler == "...x100"
Cut == "cut"
Sep == "\n\n"

Width(tok) ==
    IF tok = Filler THEN 100
    ELSE IF tok = CLARIFICATION_MARKER THEN 21
    ELSE IF tok \in {"claude", "Claude"} THEN 6
    ELSE IF tok = Sep THEN 2
    ELSE 1

\* text.length
RECURSIVE TextLength(_)
TextLength(text) ==
    IF text = <<>> THEN 0 ELSE Width(Head(text)) + TextLength(Tail(text))

\* text.slice(0, n)
RECURSIVE Slice(_, _)
Slice(text, n) ==
    IF text = <<>> \/ n <= 0 THEN <<>>
    ELSE IF Width(Head(text)) <= n
    THEN <<Head(text)>> \o Slice(Tail(text), n - Width(Head(text)))
    ELSE <<Cut>>

IsSpace(tok) == tok \in {" ", Sep}
IsWord(tok) == tok \in {"claude", "Claude"}

RECURSIVE TrimStart(_)
TrimStart(text) ==
    IF text # <<>> /\ IsSpace(Head(text)) THEN TrimStart(Tail(text)) ELSE text

RECURSIVE TrimEnd(_)
TrimEnd(text) ==
    IF text # <<>> /\ IsSpace(text[Len(text)])
    THEN TrimEnd(SubSeq(text, 1, Len(text) - 1)) ELSE text

\* text.trim()
Trim(text) == TrimEnd(TrimStart(text))

\* text.indexOf(tok) as a position from 1, 0 for -1
IndexOf(text, tok) ==
    IF \E i \in DOMAIN text : text[i] = tok
    THEN CHOOSE i \in DOMAIN text :
            text[i] = tok /\ \A j \in 1..(i - 1) : text[j] # tok
    ELSE 0

parseForClarification(text) ==
    LET markerIndex == IndexOf(text, CLARIFICATION_MARKER)
        preamble == Trim(SubSeq(text, 1, markerIndex - 1))
        afterMarker == Trim(SubSeq(text, markerIndex + 1, Len(text)))
    IN  IF markerIndex # 0
        THEN [needsClarification |-> TRUE,
              cleanedText |-> IF preamble # <<>>
                              THEN preamble \o <<Sep>> \o afterMarker
                              ELSE afterMarker]
        ELSE [needsClarification |-> FALSE, cleanedText |-> text]

\* text.replace(/@claude/gi, "Claude")
RECURSIVE ReplaceAtClaude(_)
ReplaceAtClaude(text) ==
    IF text = <<>> THEN <<>>
    ELSE IF Len(text) >= 2 /\ text[1] = "@" /\ text[2] \in {"claude", "Claude"}
    THEN <<"Claude">> \o ReplaceAtClaude(SubSeq(text, 3, Len(text)))
    ELSE <<Head(text)>> \o ReplaceAtClaude(Tail(text))

\* text.replace(/@(\w+)/g, "$1")
RECURSIVE ReplaceAtWord(_)
ReplaceAtWord(text) ==
    IF text = <<>> THEN <<>>
    ELSE IF Len(text) >= 2 /\ text[1] = "@" /\ IsWord(text[2])
    THEN <<text[2]>> \o ReplaceAtWord(SubSeq(text, 3, Len(text)))
    ELSE <<Head(text)>> \o ReplaceAtWord(Tail(text))

sanitizeMentions(text) == ReplaceAtWord(ReplaceAtClaude(text))

\* Activity contents as runAgent composes them.
NoContent == [site |-> None, type |-> None, body |-> <<>>]
Content(site, type, body) == [site |-> site, type |-> type, body |-> body]

\* agent.ts 188-193: the preview of a text block of more than 100 characters
ThoughtContent(text) ==
    Content("thought", "thought", Slice(text, 150) \o <<"...">>)

\* agent.ts 229-252: the action note of a Bash tool use
ActionContent(command) ==
    Content("action", "action", <<"Running: ">> \o Slice(command, 60))

\* agent.ts 263-276: the note of a tool result (output, no error)
ToolResultContent(output) ==
    LET preview == Slice(output, 200)
    IN  Content("tool-result", "thought",
                <<"ok ">> \o (IF TextLength(preview) > 150
                              THEN Slice(preview, 150) \o <<"...">>
                              ELSE preview))

\* agent.ts 330-339: the final activity
FinalContent(responseText) ==
    LET parsed == parseForClarification(responseText)
    IN  Content("final",
                IF parsed.needsClarification THEN "elicitation" ELSE "response",
                sanitizeMentions(Slice(parsed.cleanedText, 2000)))

\* agent.ts 382-383: the error activity
ErrorContent(message) ==
    Content("error", "error",
            sanitizeMentions(<<"I encountered an error: ">> \o message))

\* The directory is not looked into while the file is taken as a whole.
NoDisk == [real |-> 0, tmp |-> 0, inodes |-> <<>>]

\* ---------------------------------------------------------------------------
\* Initial state
\* ---------------------------------------------------------------------------
InitServer(b, f) ==
    /\ now = StartTime
    /\ processedSessions = EmptyMap
    /\ runningAgents = EmptyMap
    /\ requests = <<>>
    /\ runs = EmptyMap
    /\ sessionStore = NewStore
    /\ file = f
    /\ activities = [s \in Sessions |-> <<>>]
    /\ budget = b

\* The state beside the server; the secret is the value of the environment
\* variable, None when the variable is not set (server.ts 35).
InitAside(secrets) ==
    /\ fs = NoDisk
    /\ procs = <<>>
    /\ ledger = <<>>
    /\ draft = <<>>
    /\ outbox = NoContent
    /\ WEBHOOK_SECRET \in secrets

InitWith(b, f) ==
    /\ InitServer(b, f)
    /\ InitAside({Secret})


\* ---------------------------------------------------------------------------
\* Activity Emitter (linear-api.ts: emitActivity)
\* ---------------------------------------------------------------------------
\* "ok": the mutation succeeded, emitActivity resolves true.
\* "fail": fetch failed, HTTP status not ok or success false; resolves false.
\* "throw": response.json() rejects (it is outside the try); emitActivity rejects.
EmitOutcomes(faults) == IF faults > 0 THEN {"ok", "fail", "throw"} ELSE {"ok"}

FaultsOf(out) == IF out = "ok" THEN 0 ELSE 1

\* One completed emitActivity call: the run that made it (0: the stop branch
\* of the handler), the run it is about, the content type, the place of the
\* call in the code and how the call ended.
Activity(run, about, type, what, out) ==
    [run |-> run, about |-> about, type |-> type, what |-> what, result |-> out]

\* ---------------------------------------------------------------------------
\* Requests (server.ts: app.post("/webhook"))
\* ---------------------------------------------------------------------------
NoResponse == [status |-> 0, skipped |-> None, action |-> None, cancelled |-> FALSE]
Response(status, skipped, action, cancelled) ==
    [status |-> status, skipped |-> skipped, action |-> action, cancelled |-> cancelled]

\* A run is in flight from the call of runAgent until its promise settles.
InFlight(r) == r \in DOMAIN runs /\ runs[r].pc \notin {"settled", "closed"}

\* The registry key the handler computes for an event that may start a run.
KeyOf(payload) ==
    IF isAgentSessionCreated(payload) THEN sessionKey(payload) ELSE dedupeKey(payload)

StartsRuns(payload) ==
    \/ isAgentSessionCreated(payload)
    \/ /\ isAgentSessionPrompted(payload)
       /\ ~isStopSignal(payload)
       /\ getPromptedMessage(payload) # None

\* Observation: the requests that carry the key of request i and whose handlers
\* are suspended at  await c.req.text()  while the handler of i runs.
Rivals(i) ==
    IF StartsRuns(requests[i].payload)
    THEN {j \in DOMAIN requests \ {i} :
            /\ requests[j].pc = "body"
            /\ requests[j].payload.action = requests[i].payload.action
            /\ StartsRuns(requests[j].payload)
            /\ KeyOf(requests[j].payload) = KeyOf(requests[i].payload)}
    ELSE {}

\* Observation: the runs of the session of stop request i that are in flight
\* and not aborted when the handler of i runs.
Live(i) ==
    IF isAgentSessionPrompted(requests[i].payload) /\ isStopSignal(requests[i].payload)
    THEN {r \in DOMAIN runs :
            /\ runs[r].session = requests[i].payload.session
            /\ InFlight(r)
            /\ ~runs[r].aborted}
    ELSE {}

\* Observation: no run of the session of request i is left, in flight or
\* waiting for its finally callback, when the handler of i runs.
Idle(i) ==
    \A r \in DOMAIN runs :
        runs[r].session = requests[i].payload.session => runs[r].pc = "closed"

\* A webhook POST arrives; the handler reads the linear-signature header and
\* suspends at  await c.req.text()  (server.ts 74-75).
Post(bodies, kinds) ==
    /\ budget.requests > 0
    /\ \E p \in bodies, k \in kinds :
         requests' = Append(requests,
            [payload |-> p, signature |-> Signature(k, p),
             pc |-> "body", response |-> NoResponse,
             rivals |-> {}, live |-> {}, idle |-> FALSE, stopped |-> 0,
             handler |-> None])
    /\ budget' = [budget EXCEPT !.requests = @ - 1]
    /\ UNCHANGED <<aside, now, processedSessions, runningAgents, runs, sessionStore,
                   file, activities>>

\* The tracker delivers an event: the body is signed with the shared secret.
Deliver(payloads) == Post(payloads, {"signed"})

\* Mutant: the run goes to resolveRepoCwd without the acknowledgement.
NewRun_NoAck(payload, followUp, t) ==
    [session |-> payload.session, followUp |-> followUp, at |-> t,
     pc |-> IF payload.issue THEN "resolve" ELSE "settled",
     aborted |-> FALSE, abortedIn |-> None,
     existing |-> None, prompt |-> None, captured |-> FALSE,
     first |-> None, sets |-> <<>>, last |-> None, spoke |-> FALSE,
     responseText |-> "",
     lastToolUseId |-> FALSE, note |-> None,
     failed |-> FALSE, rejected |-> FALSE, persistFailed |-> FALSE]

\* runAgent up to its first await (agent.ts 105-116), run inside the handler.
NewRun(payload, followUp, t) ==
    [session |-> payload.session, followUp |-> followUp, at |-> t,
     pc |-> IF payload.issue THEN "ack" ELSE "settled",
     aborted |-> FALSE, abortedIn |-> None,
     existing |-> None, prompt |-> None, captured |-> FALSE,
     first |-> None, sets |-> <<>>, last |-> None, spoke |-> FALSE,
     responseText |-> "",
     lastToolUseId |-> FALSE, note |-> None,
     failed |-> FALSE, rejected |-> FALSE, persistFailed |-> FALSE]

Respond(i, resp, pc) ==
    requests' = [requests EXCEPT ![i].response = resp, ![i].pc = pc,
                                 ![i].rivals = Rivals(i),
                                 ![i].live = Live(i),
                                 ![i].idle = Idle(i),
                                 ![i].stopped =
                                     IF resp.cancelled
                                     THEN runningAgents[requests[i].payload.session]
                                     ELSE 0]

\* Mutant: the handler awaits runAgent before it answers.
StartRun_Await(i, key, followUp, t) ==
    /\ processedSessions' = markSessionProcessed(processedSessions, key, t)
    /\ runningAgents' = MapSet(runningAgents, requests[i].payload.session, i)
    /\ runs' = MapSet(runs, i, NewRun(requests[i].payload, followUp, t))
    /\ Respond(i, NoResponse, "await")

\* markSessionProcessed, runningAgents.set, runAgent(...) not awaited, 200.
StartRun(i, key, followUp, t) ==
    /\ processedSessions' = markSessionProcessed(processedSessions, key, t)
    /\ runningAgents' = MapSet(runningAgents, requests[i].payload.session, i)
    /\ runs' = MapSet(runs, i, NewRun(requests[i].payload, followUp, t))
    /\ Respond(i, Response(200, None, None, FALSE), "done")

Skip(i, resp) ==
    /\ Respond(i, resp, "done")
    /\ UNCHANGED <<processedSessions, runningAgents, runs>>

\* Mutant: the session id is recorded before the self-trigger test.
HandleCreated_MarkFirst(i, t) ==
    LET payload == requests[i].payload
        key == sessionKey(payload)
    IN  IF payload.session = None
        THEN Skip(i, Response(400, None, None, FALSE))
        ELSE IF isSessionProcessed(processedSessions, key, t)
        THEN Skip(i, Response(200, "duplicate", None, FALSE))
        ELSE IF isSelfTrigger(payload)
        THEN /\ processedSessions' = markSessionProcessed(processedSessions, key, t)
             /\ Respond(i, Response(200, "self-trigger", None, FALSE), "done")
             /\ UNCHANGED <<runningAgents, runs>>
        ELSE StartRun(i, key, FALSE, t)

HandleCreated(i, t) ==
    LET payload == requests[i].payload
        key == sessionKey(payload)
    IN  IF payload.session = None
        THEN Skip(i, Response(400, None, None, FALSE))
        ELSE IF isSessionProcessed(processedSessions, key, t)
        THEN Skip(i, Response(200, "duplicate", None, FALSE))
        ELSE IF isSelfTrigger(payload)
        THEN Skip(i, Response(200, "self-trigger", None, FALSE))
        ELSE StartRun(i, key, FALSE, t)

\* Mutant: a stop aborts every run that has a handle.
HandleStop_All(i) ==
    /\ runs' = [r \in DOMAIN runs |->
                  IF \E s \in DOMAIN runningAgents : runningAgents[s] = r
                  THEN [runs[r] EXCEPT !.aborted = TRUE] ELSE runs[r]]
    /\ runningAgents' = EmptyMap
    /\ Respond(i, Response(200, None, "stop-acknowledged", FALSE), "done")
    /\ UNCHANGED processedSessions

\* Mutant: a stop aborts the run but leaves its handle in the registry.
HandleStop_KeepHandle(i) ==
    LET s == requests[i].payload.session
    IN  IF s \in DOMAIN runningAgents
        THEN /\ runs' = [runs EXCEPT ![runningAgents[s]].aborted = TRUE]
             /\ Respond(i, Response(200, None, "stop-acknowledged", TRUE), "stop_emit")
             /\ UNCHANGED <<processedSessions, runningAgents>>
        ELSE Skip(i, Response(200, None, "stop-acknowledged", FALSE))

HandleStop(i) ==
    LET s == requests[i].payload.session
    IN  IF s \in DOMAIN runningAgents
        THEN /\ runs' = [runs EXCEPT ![runningAgents[s]].aborted = TRUE,
                                     ![runningAgents[s]].abortedIn =
                                         IF @ = None THEN runs[runningAgents[s]].pc ELSE @]
             /\ runningAgents' = MapDelete(runningAgents, s)
             /\ Respond(i, Response(200, None, "stop-acknowledged", TRUE), "stop_emit")
             /\ UNCHANGED processedSessions
        ELSE Skip(i, Response(200, None, "stop-acknowledged", FALSE))

HandlePrompted(i, t) ==
    LET payload == requests[i].payload
        key == dedupeKey(payload)
    IN  IF payload.session = None
        THEN Skip(i, Response(400, None, None, FALSE))
        ELSE IF isStopSignal(payload)
        THEN HandleStop(i)
        ELSE IF getPromptedMessage(payload) = None
        THEN Skip(i, Response(400, None, None, FALSE))
        ELSE IF isSessionProcessed(processedSessions, key, t)
        THEN Skip(i, Response(200, "duplicate", None, FALSE))
        ELSE StartRun(i, key, TRUE, t)

\* markSessionProcessed(data.id), then the handler of the event is called
\* and not awaited, 200 (server.ts 304-328, 355-379).
StartHandler(i, key, name, t) ==
    /\ processedSessions' = markSessionProcessed(processedSessions, key, t)
    /\ requests' = [requests EXCEPT ![i].response = Response(200, None, None, FALSE),
                                    ![i].pc = "done",
                                    ![i].handler = name]
    /\ UNCHANGED <<runningAgents, runs>>

\* The project update branch (server.ts 281-329).
HandleProjectUpdate(i, t) ==
    LET payload == requests[i].payload
        key == <<payload.data.id>>
    IN  IF isSessionProcessed(processedSessions, key, t)
        THEN Skip(i, Response(200, "duplicate", None, FALSE))
        ELSE IF isProjectUpdateSelfTrigger(payload)
        THEN Skip(i, Response(200, "self-trigger", None, FALSE))
        ELSE StartHandler(i, key, "handleProjectUpdate", t)

\* The project update comment branch (server.ts 332-380).
HandleProjectUpdateComment(i, t) ==
    LET payload == requests[i].payload
        key == <<payload.data.id>>
    IN  IF isSessionProcessed(processedSessions, key, t)
        THEN Skip(i, Response(200, "duplicate", None, FALSE))
        ELSE IF isProjectUpdateCommentSelfTrigger(payload)
        THEN Skip(i, Response(200, "self-trigger", None, FALSE))
        ELSE StartHandler(i, key, "handleProjectUpdateComment", t)

\* The handler from the resumption after  await c.req.text()  to its next
\* await or its return. Only the handler reads the clock: Date.now() returns
\* the last reading plus the time that has passed since, a number of TickMs.
Dispatch(i) ==
    \E d \in 0..budget.ticks :
         /\ now' = now + d * TickMs
         /\ budget' = [budget EXCEPT !.ticks = @ - d]
         /\ IF isAgentSessionCreated(requests[i].payload)
            THEN HandleCreated(i, now + d * TickMs)
            ELSE IF isAgentSessionPrompted(requests[i].payload)
            THEN HandlePrompted(i, now + d * TickMs)
            ELSE IF isProjectUpdateMention(requests[i].payload)
            THEN HandleProjectUpdate(i, now + d * TickMs)
            ELSE IF isProjectUpdateCommentForClaude(requests[i].payload)
            THEN HandleProjectUpdateComment(i, now + d * TickMs)
            ELSE Skip(i, Response(200, None, None, FALSE))

\* A return, or a throw, before the handler looks at the event.
Refuse(i, status) ==
    /\ Skip(i, Response(status, None, None, FALSE))
    /\ UNCHANGED <<now, budget>>

\* The handler after  await c.req.text(): signature check (401), parse
\* (400), then the branch of the event. An exception that leaves the handler
\* is answered 500 by the framework.
HandleWebhook(i) ==
    /\ i \in DOMAIN requests
    /\ requests[i].pc = "body"
    /\ IF verifySignatureThrows(requests[i].signature, WEBHOOK_SECRET)
       THEN Refuse(i, 500)
       ELSE IF ~verifySignature(requests[i].payload, requests[i].signature,
                                WEBHOOK_SECRET)
       THEN Refuse(i, 401)
       ELSE IF parseWebhookPayloadThrows(requests[i].payload)
       THEN Refuse(i, 400)
       ELSE IF payloadTypeThrows(requests[i].payload)
       THEN Refuse(i, 500)
       ELSE Dispatch(i)
    /\ UNCHANGED <<aside, sessionStore, file, activities>>

\* The stop branch resumes after  await emitActivity(...)  and returns.
StopAckDone(i) ==
    /\ i \in DOMAIN requests
    /\ requests[i].pc = "stop_emit"
    /\ \E out \in EmitOutcomes(budget.faults) :
         /\ activities' = [activities EXCEPT ![requests[i].payload.session] =
                              Append(@, Activity(0, requests[i].stopped, "response", "stopack", out))]
         /\ requests' = [requests EXCEPT
                ![i].pc = "done",
                ![i].response = IF out = "throw"
                                THEN Response(500, None, None, FALSE) ELSE @]
         /\ budget' = [budget EXCEPT !.faults = @ - FaultsOf(out)]
    /\ UNCHANGED <<aside, now, processedSessions, runningAgents, runs, sessionStore, file>>


\* ---------------------------------------------------------------------------
\* Session Runner (agent.ts: runAgent)
\* ---------------------------------------------------------------------------
\* What one synchronous section of a run leaves behind.
Out(run, store, f, log, faults) ==
    [run |-> run, store |-> store, file |-> f, log |-> log, faults |-> faults]

\* Mutant: the catch block leaves the store alone.
Catch_Keep(run, store, f, log, used, left) ==
    {Out([run EXCEPT !.failed = TRUE, !.pc = "error"], store, f, log, used)}

\* The catch block (agent.ts 372-383) up to  await emitActivity(error).
\* sessionStore.delete writes the file; a failing write leaves the catch.
Catch(run, store, f, log, used, left) ==
    LET caught == [run EXCEPT !.failed = TRUE, !.pc = "error"]
        thrown == [run EXCEPT !.failed = TRUE, !.pc = "settled", !.rejected = TRUE]
        loaded == SessionStoreLoad(store, f)
    IN  IF run.existing # None /\ run.session \in DOMAIN loaded.data
        THEN LET data == SessionStoreDelete(loaded.data, run.session)
                 st == [loaded EXCEPT !.data = data]
             IN  {Out(caught, st, SessionStoreWrite(data), log, used)}
                 \cup (IF left > 0 THEN {Out(thrown, st, f, log, used + 1)} ELSE {})
        ELSE {Out(caught, IF run.existing # None THEN loaded ELSE store, f, log, used)}

\* A section of run r, which consumed msgs messages of the stream, ends in
\* one of the outcomes of outs.
RunStepOn(r, outs, msgs) ==
    /\ \E o \in outs :
         /\ runs' = [runs EXCEPT ![r] = o.run]
         /\ sessionStore' = o.store
         /\ file' = o.file
         /\ activities' = [activities EXCEPT ![runs[r].session] = @ \o o.log]
         /\ budget' = [budget EXCEPT !.faults = @ - o.faults,
                                     !.messages = @ - msgs]
    /\ UNCHANGED <<aside, now, processedSessions, runningAgents, requests>>

RunStep(r, outs) == RunStepOn(r, outs, 0)

\* An emitActivity awaited inside the try resolves or rejects.
EmitInTry(r, type, what, onOk, onFail) ==
    LET run == runs[r]
    IN  UNION {
          LET log == <<Activity(r, r, type, what, out)>>
          IN  IF out = "throw"
              THEN Catch(run, sessionStore, file, log, 1, budget.faults - 1)
              ELSE {Out([run EXCEPT !.pc = IF out = "ok" THEN onOk ELSE onFail,
                                    !.note = None],
                        sessionStore, file, log, FaultsOf(out))}
          : out \in EmitOutcomes(budget.faults)}

\* The acknowledgement (agent.ts 116) resolves; resolveRepoCwd is called.
\* It is outside the try: a rejection settles the run's promise as rejected.
AckDone(r) ==
    /\ r \in DOMAIN runs
    /\ runs[r].pc = "ack"
    /\ RunStep(r,
         {Out([runs[r] EXCEPT !.pc = IF out = "throw" THEN "settled" ELSE "resolve",
                              !.rejected = (out = "throw")],
              sessionStore, file,
              <<Activity(r, r, "thought", "ack", out)>>, FaultsOf(out))
          : out \in EmitOutcomes(budget.faults)})

\* The prompt of query(): the user's message alone when a conversation is
\* resumed, else the prompt built by buildAgentPrompt (agent.ts 130-138).
Prompt(existing) == IF existing # None THEN "message" ELSE "full"

\* Mutant: the store is looked up for every run, follow-up or not.
ResolveDone_Always(r) ==
    /\ r \in DOMAIN runs
    /\ runs[r].pc = "resolve"
    /\ LET run == runs[r]
           existing == SessionStoreGet(sessionStore, file, run.session)
       IN  RunStep(r, {Out([run EXCEPT !.pc = "stream",
                                      !.existing = existing,
                                      !.prompt = Prompt(existing)],
                           SessionStoreLoad(sessionStore, file),
                           file, <<>>, 0)})

\* resolveRepoCwd resolves: sessionStore.get, the prompt, query() with
\* resume: existingClaudeSessionId; the run then awaits the first message of
\* the stream (agent.ts 122-172).
ResolveDone(r) ==
    /\ r \in DOMAIN runs
    /\ runs[r].pc = "resolve"
    /\ LET run == runs[r]
           existing == IF run.followUp
                       THEN SessionStoreGet(sessionStore, file, run.session)
                       ELSE None
       IN  RunStep(r, {Out([run EXCEPT !.pc = "stream",
                                      !.existing = existing,
                                      !.prompt = Prompt(existing)],
                           IF run.followUp
                           THEN SessionStoreLoad(sessionStore, file) ELSE sessionStore,
                           file, <<>>, 0)})

\* resolveRepoCwd rejects (mkdirSync of the scratch directory throws, repo.ts
\* 228-232); the call is outside the try.
ResolveThrow(r) ==
    /\ r \in DOMAIN runs
    /\ runs[r].pc = "resolve"
    /\ budget.faults > 0
    /\ RunStep(r, {Out([runs[r] EXCEPT !.pc = "settled", !.rejected = TRUE],
                       sessionStore, file, <<>>, 1)})

\* Messages of the agent stream. sid: the session_id the message exposes.
SystemMessage(sid) ==
    [type |-> "system", sid |-> sid, block |-> None, text |-> ""]
TextMessage(sid, text) ==
    [type |-> "assistant", sid |-> sid, block |-> "text", text |-> text]
ToolUseMessage(sid) ==
    [type |-> "assistant", sid |-> sid, block |-> "tool_use", text |-> ""]
ToolResultMessage(sid, text) ==
    [type |-> "user", sid |-> sid, block |-> "tool_result", text |-> text]
ResultMessage(sid, turns) ==
    [type |-> "result", sid |-> sid, block |-> turns, text |-> ""]

\* block.text.length > 100
IsLong(text) == text = "long"
\* the text contains CLARIFICATION_MARKER (lib.ts 267)
HasMarker(text) == text = "clarify"

\* The body of the for-await loop for message m after the capture of the
\* session id (agent.ts 183-321): the run with the next emitActivity it awaits
\* (pc "note") or back at the iterator (pc "stream").
OnMessage(run, m) ==
    IF m.type = "assistant" /\ m.block = "text"
    THEN [run EXCEPT !.responseText = m.text,
                     !.pc = IF IsLong(m.text) THEN "note" ELSE "stream",
                     !.note = IF IsLong(m.text) THEN "thought" ELSE None]
    ELSE IF m.type = "assistant" /\ m.block = "tool_use"
    THEN [run EXCEPT !.lastToolUseId = TRUE, !.pc = "note", !.note = "action"]
    ELSE IF m.type = "user"
    THEN IF m.block = "tool_result" /\ run.lastToolUseId
         THEN [run EXCEPT !.lastToolUseId = FALSE,
                          !.pc = IF m.text # "" THEN "note" ELSE "stream",
                          !.note = IF m.text # "" THEN "thought" ELSE None]
         ELSE run
    ELSE IF m.type = "result"
    THEN [run EXCEPT !.pc = IF m.block = "many" THEN "note" ELSE "stream",
                     !.note = IF m.block = "many" THEN "thought" ELSE None]
    ELSE run

\* Mutant: every message that exposes a session id is captured.
Captures_Always(run, m) == m.sid # None

\* !claudeSessionCaptured && "session_id" in message && message.session_id
Captures(run, m) == ~run.captured /\ m.sid # None

\* A text block of an assistant message (agent.ts 183-185).
IsText(m) == m.type = "assistant" /\ m.block = "text"

\* Observation: the first session id the stream of the run exposed, the
\* ids the run passed to sessionStore.set, in order, the text of the most
\* recent text block and whether some text block held any text.
Seen(run, m) ==
    [run EXCEPT !.first = IF @ = None THEN m.sid ELSE @,
                !.sets = IF Captures(run, m) THEN Append(@, m.sid) ELSE @,
                !.last = IF IsText(m) THEN m.text ELSE @,
                !.spoke = @ \/ (IsText(m) /\ m.text # "")]

\* The iterator yields message m (agent.ts 172-181, then OnMessage).
StreamMessage(r, messages) ==
    /\ r \in DOMAIN runs
    /\ runs[r].pc = "stream"
    /\ ~runs[r].aborted
    /\ budget.messages > 0
    /\ \E m \in messages :
         LET run == Seen(runs[r], m)
             loaded == SessionStoreLoad(sessionStore, file)
             data == MapSet(loaded.data, run.session, m.sid)
             st == [loaded EXCEPT !.data = data]
         IN  IF Captures(runs[r], m)
             THEN RunStepOn(r,
                    {Out(OnMessage([run EXCEPT !.captured = TRUE], m),
                         st, SessionStoreWrite(data), <<>>, 0)}
                    \cup (IF budget.faults > 0
                          THEN Catch([run EXCEPT !.persistFailed = TRUE],
                                     st, file, <<>>, 1, budget.faults - 1)
                          ELSE {}),
                    1)
             ELSE RunStepOn(r, {Out(OnMessage(run, m), sessionStore, file, <<>>, 0)}, 1)

\* The emitActivity of a progress or action note resolves (agent.ts 190,
\* 248, 273, 316); the loop goes back to the iterator.
NoteDone(r) ==
    /\ r \in DOMAIN runs
    /\ runs[r].pc = "note"
    /\ RunStep(r, EmitInTry(r, runs[r].note, "note", "stream", "stream"))

\* Mutant: the loop never leaves a stream that has ended.
StreamEnd_Stay(r) ==
    /\ r \in DOMAIN runs
    /\ runs[r].pc = "stream"
    /\ FALSE
    /\ UNCHANGED vars

\* The iterator is done: the final activity is composed and its emitActivity
\* awaited (agent.ts 330-339, 362-365).
StreamEnd(r) ==
    /\ r \in DOMAIN runs
    /\ runs[r].pc = "stream"
    /\ RunStep(r, {Out([runs[r] EXCEPT !.pc = IF runs[r].responseText # ""
                                               THEN "final" ELSE "fallback"],
                       sessionStore, file, <<>>, 0)})

\* The iterator throws: an error of the agent, or the abort of the run.
StreamThrow(r) ==
    /\ r \in DOMAIN runs
    /\ runs[r].pc = "stream"
    /\ runs[r].aborted \/ budget.faults > 0
    /\ IF runs[r].aborted
       THEN RunStep(r, Catch(runs[r], sessionStore, file, <<>>, 0, budget.faults))
       ELSE RunStep(r, Catch(runs[r], sessionStore, file, <<>>, 1, budget.faults - 1))

FinalType(run) == IF HasMarker(run.responseText) THEN "elicitation" ELSE "response"

\* The first emitActivity of the final activity resolves (agent.ts 336-361).
FinalDone(r) ==
    /\ r \in DOMAIN runs
    /\ runs[r].pc = "final"
    /\ RunStep(r, EmitInTry(r, FinalType(runs[r]), "final", "settled", "retry"))

\* The retry resolves (agent.ts 353-360).
RetryDone(r) ==
    /\ r \in DOMAIN runs
    /\ runs[r].pc = "retry"
    /\ RunStep(r, EmitInTry(r, FinalType(runs[r]), "retry", "settled", "settled"))

\* The emitActivity of the fallback response resolves (agent.ts 365-370).
FallbackDone(r) ==
    /\ r \in DOMAIN runs
    /\ runs[r].pc = "fallback"
    /\ RunStep(r, EmitInTry(r, "response", "fallback", "settled", "settled"))

\* The emitActivity of the catch block resolves or rejects (agent.ts 383).
ErrorDone(r) ==
    /\ r \in DOMAIN runs
    /\ runs[r].pc = "error"
    /\ RunStep(r,
         {Out([runs[r] EXCEPT !.pc = "settled", !.rejected = (out = "throw")],
              sessionStore, file,
              <<Activity(r, r, "error", "error", out)>>, FaultsOf(out))
          : out \in EmitOutcomes(budget.faults)})

\* Mutant: the finally callback leaves the registry alone.
Finally_Keep(r) ==
    /\ r \in DOMAIN runs
    /\ runs[r].pc = "settled"
    /\ runs' = [runs EXCEPT ![r].pc = "closed"]
    /\ UNCHANGED <<aside, now, processedSessions, runningAgents, requests,
                   sessionStore, file, activities, budget>>

\* .catch(...).finally(() => runningAgents.delete(session.id))  (server.ts
\* 177-186, 266-275)
Finally(r) ==
    /\ r \in DOMAIN runs
    /\ runs[r].pc = "settled"
    /\ runs' = [runs EXCEPT ![r].pc = "closed"]
    /\ runningAgents' = MapDelete(runningAgents, runs[r].session)
    /\ UNCHANGED <<aside, now, processedSessions, requests, sessionStore, file,
                   activities, budget>>

\* ---------------------------------------------------------------------------
\* Restart of the controller process
\* ---------------------------------------------------------------------------
\* What a restart does to the requests and runs of the process that ends:
\* a handler or run that has not finished is lost, a finished request is old.
Shutdown(list, finished, past) ==
    [k \in DOMAIN list |->
        IF list[k].pc \in finished THEN [list[k] EXCEPT !.pc = past]
        ELSE [list[k] EXCEPT !.pc = "lost"]]

\* Mutant: the Session Registry outlives the process.
ProcessRestart_Keep ==
    /\ budget.restarts > 0
    /\ budget' = [budget EXCEPT !.restarts = @ - 1]
    /\ runningAgents' = EmptyMap
    /\ sessionStore' = NewStore
    /\ requests' = Shutdown(requests, {"done", "old"}, "old")
    /\ runs' = Shutdown(runs, {"closed"}, "closed")
    /\ UNCHANGED <<aside, now, processedSessions, file, activities>>

\* The process ends and the module is evaluated again: new Maps (server.ts
\* 39, 45) and a new SessionStore on the same path (agent.ts 83). The file
\* and the activities at the tracker stay.
ProcessRestart ==
    /\ budget.restarts > 0
    /\ budget' = [budget EXCEPT !.restarts = @ - 1]
    /\ processedSessions' = EmptyMap
    /\ runningAgents' = EmptyMap
    /\ sessionStore' = NewStore
    /\ requests' = Shutdown(requests, {"done", "old"}, "old")
    /\ runs' = Shutdown(runs, {"closed"}, "closed")
    /\ UNCHANGED <<aside, now, file, activities>>

\* ---------------------------------------------------------------------------
\* Composition of activity contents (agent.ts: runAgent)
\* ---------------------------------------------------------------------------
Compose(content) ==
    /\ outbox = NoContent
    /\ outbox' = content
    /\ UNCHANGED <<server, WEBHOOK_SECRET, fs, procs, ledger, draft>>

\* A text block of more than 100 characters arrives.
ComposeThought == TextLength(draft) > 100 /\ Compose(ThoughtContent(draft))
\* A Bash tool use arrives with the draft as its command.
ComposeAction == Compose(ActionContent(draft))
\* A tool result arrives with the draft as its output.
ComposeToolResult == draft # <<>> /\ Compose(ToolResultContent(draft))
\* The stream ends with the draft as responseText.
ComposeFinal == draft # <<>> /\ Compose(FinalContent(draft))
\* The stream throws an Error with the draft as its message.
ComposeError == Compose(ErrorContent(draft))

\* ---------------------------------------------------------------------------
\* SessionStore called directly (agent.ts 49-65)
\* ---------------------------------------------------------------------------
SetCall(k, v) == [op |-> "set", key |-> k, value |-> v]
DeleteCall(k) == [op |-> "delete", key |-> k, value |-> None]

\* set(k, v): load, data[k] = v, write(data).
StoreSet(keys, values) ==
    /\ Len(ledger) < MaxOps
    /\ \E k \in keys, v \in values :
         LET loaded == SessionStoreLoad(sessionStore, file)
             data == MapSet(loaded.data, k, v)
         IN  /\ sessionStore' = [loaded EXCEPT !.data = data]
             /\ file' = SessionStoreWrite(data)
             /\ ledger' = Append(ledger, SetCall(k, v))
    /\ UNCHANGED <<now, processedSessions, runningAgents, requests, runs,
                   activities, budget, fs, procs, draft, outbox, WEBHOOK_SECRET>>

\* delete(k): load; if (k in data) { delete data[k]; write(data) }.
StoreDelete(keys) ==
    /\ Len(ledger) < MaxOps
    /\ \E k \in keys :
         LET loaded == SessionStoreLoad(sessionStore, file)
             data == SessionStoreDelete(loaded.data, k)
         IN  /\ sessionStore' = [loaded EXCEPT !.data = data]
             /\ file' = IF ObjectHas(loaded.data, k) THEN SessionStoreWrite(data) ELSE file
             /\ ledger' = Append(ledger, DeleteCall(k))
    /\ UNCHANGED <<now, processedSessions, runningAgents, requests, runs,
                   activities, budget, fs, procs, draft, outbox, WEBHOOK_SECRET>>

\* The process restarts: a new SessionStore on the same path.
Restart ==
    /\ sessionStore.loaded
    /\ sessionStore' = NewStore
    /\ UNCHANGED <<now, processedSessions, runningAgents, requests, runs, file,
                   activities, budget, aside>>

\* ---------------------------------------------------------------------------
\* SessionStore.write on the file system (agent.ts 67-75)
\* ---------------------------------------------------------------------------
\* The old controller process and the restarted one share the store path and
\* so the path of the temporary file, this.path + ".tmp".
Procs == {"old", "new"}

\* A file is as many chunks as writeFileSync makes write calls; position k of
\* a content holds {data}, data the mapping whose k-th chunk is there, or {}
\* for a hole.
Complete(data) == [k \in 1..WriteChunks |-> {data}]

\* JSON.parse(readFileSync(path)) of load(): the mapping, or an exception and
\* the empty cache (agent.ts 34-46).
Parse(content) ==
    IF /\ Len(content) = WriteChunks
       /\ \A k \in 1..WriteChunks : content[k] # {} /\ content[k] = content[1]
    THEN [ok |-> TRUE, data |-> CHOOSE d \in content[1] : TRUE]
    ELSE [ok |-> FALSE, data |-> EmptyMap]

\* pwrite of chunk k of the mapping data on an inode.
PutChunk(content, k, data) ==
    [i \in 1..(IF Len(content) > k THEN Len(content) ELSE k) |->
        IF i = k THEN {data}
        ELSE IF i <= Len(content) THEN content[i] ELSE {}]

IdleProc(left) == [pc |-> "idle", data |-> EmptyMap, fd |-> 0, written |-> 0,
                   left |-> left, threw |-> FALSE]

\* writeFileSync(tmpPath, ...) opens the temporary path with O_CREAT|O_TRUNC:
\* the inode the path names is emptied, or a new one is made.
WriteOpen(p, mappings) ==
    /\ procs[p].pc = "idle"
    /\ procs[p].left > 0
    /\ \E data \in mappings :
         LET made == fs.tmp = 0
             id == IF made THEN Len(fs.inodes) + 1 ELSE fs.tmp
         IN  /\ fs' = [fs EXCEPT !.tmp = id,
                                !.inodes = IF made THEN Append(@, <<>>)
                                           ELSE [@ EXCEPT ![id] = <<>>]]
             /\ procs' = [procs EXCEPT ![p] = [@ EXCEPT !.pc = "write", !.data = data,
                                                       !.fd = id, !.written = 0,
                                                       !.left = @ - 1]]
    /\ UNCHANGED <<server, WEBHOOK_SECRET, ledger, draft, outbox>>

\* writeFileSync writes the next chunk through its file descriptor.
WriteChunk(p) ==
    /\ procs[p].pc = "write"
    /\ fs' = [fs EXCEPT !.inodes[procs[p].fd] =
                            PutChunk(@, procs[p].written + 1, procs[p].data)]
    /\ procs' = [procs EXCEPT ![p].written = @ + 1,
                              ![p].pc = IF procs[p].written + 1 = WriteChunks
                                        THEN "rename" ELSE "write"]
    /\ UNCHANGED <<server, WEBHOOK_SECRET, ledger, draft, outbox>>

\* renameSync(tmpPath, this.path): the real path names the inode of the
\* temporary path; ENOENT if another process has renamed it away.
WriteRename(p) ==
    /\ procs[p].pc = "rename"
    /\ IF fs.tmp # 0
       THEN /\ fs' = [fs EXCEPT !.real = fs.tmp, !.tmp = 0]
            /\ procs' = [procs EXCEPT ![p].pc = "idle"]
       ELSE /\ fs' = fs
            /\ procs' = [procs EXCEPT ![p].pc = "idle", ![p].threw = TRUE]
    /\ UNCHANGED <<server, WEBHOOK_SECRET, ledger, draft, outbox>>

\* The process dies in the middle of write().
Crash(p) ==
    /\ procs[p].pc \in {"write", "rename"}
    /\ procs' = [procs EXCEPT ![p].pc = "crashed"]
    /\ UNCHANGED <<server, WEBHOOK_SECRET, fs, ledger, draft, outbox>>

\* ---------------------------------------------------------------------------
\* Specifications
\* ---------------------------------------------------------------------------
Budget(reqs, msgs, faults, ticks) ==
    [requests |-> reqs, messages |-> msgs, faults |-> faults, ticks |-> ticks]

\* The guard: deliveries of created and follow-up events of a session over
\* time, to an agent that concludes without a message, in an environment
\* without faults. The follow-up a2 carries no issue: its run returns at once.
GuardPayloads ==
    {CreatedPayload("s1", c, AgentId, TRUE) : c \in {UserId, AgentId}}
    \cup {PromptedPayload("s1", UserId, AgentId, a = "a1", a, None, "msg") : a \in ActivityIds}

Init == InitWith(Budget(MaxRequests, 0, 0, MaxTicks), FileMissing)
Next ==
    \/ Deliver(GuardPayloads)
    \/ \E i \in DOMAIN requests : HandleWebhook(i)
    \/ \E r \in DOMAIN runs : AckDone(r)
    \/ \E r \in DOMAIN runs : ResolveDone(r)
    \/ \E r \in DOMAIN runs : StreamEnd(r)
    \/ \E r \in DOMAIN runs : FallbackDone(r)
    \/ \E r \in DOMAIN runs : Finally(r)
Spec == Init /\ [][Next]_vars


\* Self-triggers: deliveries whose creator is the agent itself, a user, or
\* absent, to an agent that concludes without a message.
SelfPayloads ==
    {CreatedPayload("s1", AgentId, AgentId, TRUE),
     CreatedPayload("s1", UserId, AgentId, TRUE),
     CreatedPayload("s1", None, None, TRUE),
     PromptedPayload("s1", AgentId, AgentId, TRUE, "a1", None, "msg")}

InitSelf == InitWith(Budget(SelfRequests, 0, 0, 0), FileMissing)
NextSelf ==
    \/ Deliver(SelfPayloads)
    \/ \E i \in DOMAIN requests : HandleWebhook(i)
    \/ \E r \in DOMAIN runs : AckDone(r)
    \/ \E r \in DOMAIN runs : ResolveDone(r)
    \/ \E r \in DOMAIN runs : StreamEnd(r)
    \/ \E r \in DOMAIN runs : FallbackDone(r)
    \/ \E r \in DOMAIN runs : Finally(r)
SpecSelf == InitSelf /\ [][NextSelf]_vars

\* Skips: deliveries of a session's created event by the agent itself and by
\* a user, and of a follow-up, over time; the sessions carry no issue, so
\* that every run returns at once.
SkipPayloads ==
    {CreatedPayload("s1", AgentId, AgentId, FALSE),
     CreatedPayload("s1", UserId, AgentId, FALSE),
     PromptedPayload("s1", UserId, AgentId, FALSE, "a1", None, "msg")}

InitSkip == InitWith(Budget(SkipRequests, 0, 0, MaxTicks), FileMissing)
NextSkip ==
    \/ Deliver(SkipPayloads)
    \/ \E i \in DOMAIN requests : HandleWebhook(i)
    \/ \E r \in DOMAIN runs : Finally(r)
SpecSkip == InitSkip /\ [][NextSkip]_vars

\* Registry: markSessionProcessed on registries below, next to and at the
\* capacity, whose first entries are older than the others. Keys are
\* numbered; the clock is read as in the handler.
RegistryKey(n) == <<n>>
Registry(size, old) ==
    [k \in {RegistryKey(n) : n \in 1..size}
        |-> IF k[1] <= old THEN 1 ELSE StartTime]
RegistrySizes == {0, MAX_SESSIONS - 1, MAX_SESSIONS}
RegistryKeys == {RegistryKey(n) : n \in {1, MAX_SESSIONS, MAX_SESSIONS + 1, MAX_SESSIONS + 2}}

\* A handler records a key (server.ts 155, 244).
Record(keys) ==
    /\ budget.requests > 0
    /\ \E key \in keys, d \in 0..budget.ticks :
         /\ now' = now + d * TickMs
         /\ processedSessions' = markSessionProcessed(processedSessions, key, now + d * TickMs)
         /\ budget' = [budget EXCEPT !.requests = @ - 1, !.ticks = @ - d]
    /\ UNCHANGED <<aside, runningAgents, requests, runs, sessionStore, file, activities>>

InitRegistry ==
    /\ now = StartTime
    /\ \E size \in RegistrySizes, old \in 0..MaxOld :
         processedSessions = Registry(size, old)
    /\ runningAgents = EmptyMap
    /\ requests = <<>>
    /\ runs = EmptyMap
    /\ sessionStore = NewStore
    /\ file = FileMissing
    /\ activities = [s \in Sessions |-> <<>>]
    /\ budget = Budget(MaxRecords, 0, 0, MaxTicks)
    /\ InitAside({Secret})
NextRegistry == Record(RegistryKeys)
SpecRegistry == InitRegistry /\ [][NextRegistry]_vars

\* Stop signals: a session with a created event, a follow-up and stop signals,
\* an agent that says at most MaxMessages things, no faults.
StopPayloads ==
    {CreatedPayload("s1", UserId, AgentId, TRUE),
     PromptedPayload("s1", UserId, AgentId, TRUE, "a1", None, "msg"),
     PromptedPayload("s1", UserId, AgentId, TRUE, "a2", "stop", "")}

StopMessages == {TextMessage("c1", "long")}

InitStop == InitWith(Budget(StopRequests, MaxMessages, 0, 0), FileMissing)
NextStop ==
    \/ Deliver(StopPayloads)
    \/ \E i \in DOMAIN requests : HandleWebhook(i)
    \/ \E i \in DOMAIN requests : StopAckDone(i)
    \/ \E r \in DOMAIN runs : AckDone(r)
    \/ \E r \in DOMAIN runs : ResolveDone(r)
    \/ \E r \in DOMAIN runs : StreamMessage(r, StopMessages)
    \/ \E r \in DOMAIN runs : NoteDone(r)
    \/ \E r \in DOMAIN runs : StreamEnd(r)
    \/ \E r \in DOMAIN runs : StreamThrow(r)
    \/ \E r \in DOMAIN runs : FinalDone(r)
    \/ \E r \in DOMAIN runs : FallbackDone(r)
    \/ \E r \in DOMAIN runs : ErrorDone(r)
    \/ \E r \in DOMAIN runs : Finally(r)
SpecStop == InitStop /\ [][NextStop]_vars

\* Handles: the events of the stop specification in a shorter history, with
\* a follow-up whose session has no issue, so that its run returns at once.
HandlePayloads ==
    {CreatedPayload("s1", UserId, AgentId, TRUE),
     PromptedPayload("s1", UserId, AgentId, FALSE, "a1", None, "msg"),
     PromptedPayload("s1", UserId, AgentId, TRUE, "a2", "stop", ""),
     PromptedPayload("s1", UserId, AgentId, TRUE, "a2", "stop", "stop")}

InitHandles == InitWith(Budget(HandleRequests, MaxMessages, 0, 0), FileMissing)
NextHandles ==
    \/ Deliver(HandlePayloads)
    \/ \E i \in DOMAIN requests : HandleWebhook(i)
    \/ \E i \in DOMAIN requests : StopAckDone(i)
    \/ \E r \in DOMAIN runs : AckDone(r)
    \/ \E r \in DOMAIN runs : ResolveDone(r)
    \/ \E r \in DOMAIN runs : StreamMessage(r, StopMessages)
    \/ \E r \in DOMAIN runs : NoteDone(r)
    \/ \E r \in DOMAIN runs : StreamEnd(r)
    \/ \E r \in DOMAIN runs : StreamThrow(r)
    \/ \E r \in DOMAIN runs : FinalDone(r)
    \/ \E r \in DOMAIN runs : FallbackDone(r)
    \/ \E r \in DOMAIN runs : ErrorDone(r)
    \/ \E r \in DOMAIN runs : Finally(r)
SpecHandles == InitHandles /\ [][NextHandles]_vars

\* Progress: a run and stop signals, with faults of the tracker, the file
\* system and the agent. The event loop runs every continuation that is ready: a run
\* whose awaited call has returned, or whose stream has a next message, an
\* end or an error, takes its next step.
RunTakesStep(messages) ==
    \E r \in DOMAIN runs :
        \/ AckDone(r)
        \/ ResolveDone(r)
        \/ ResolveThrow(r)
        \/ StreamMessage(r, messages)
        \/ NoteDone(r)
        \/ StreamEnd(r)
        \/ StreamThrow(r)
        \/ FinalDone(r)
        \/ RetryDone(r)
        \/ FallbackDone(r)
        \/ ErrorDone(r)
        \/ Finally(r)

LivePayloads ==
    {CreatedPayload("s1", UserId, AgentId, TRUE),
     PromptedPayload("s1", UserId, AgentId, TRUE, "a2", "stop", "")}

InitLive == InitWith(Budget(HandleRequests, MaxMessages, MaxFaults, 0), FileMissing)
NextLive ==
    \/ Deliver(LivePayloads)
    \/ \E i \in DOMAIN requests : HandleWebhook(i)
    \/ \E i \in DOMAIN requests : StopAckDone(i)
    \/ \E r \in DOMAIN runs : AckDone(r)
    \/ \E r \in DOMAIN runs : ResolveDone(r)
    \/ \E r \in DOMAIN runs : ResolveThrow(r)
    \/ \E r \in DOMAIN runs : StreamMessage(r, StopMessages)
    \/ \E r \in DOMAIN runs : NoteDone(r)
    \/ \E r \in DOMAIN runs : StreamEnd(r)
    \/ \E r \in DOMAIN runs : StreamThrow(r)
    \/ \E r \in DOMAIN runs : FinalDone(r)
    \/ \E r \in DOMAIN runs : RetryDone(r)
    \/ \E r \in DOMAIN runs : FallbackDone(r)
    \/ \E r \in DOMAIN runs : ErrorDone(r)
    \/ \E r \in DOMAIN runs : Finally(r)
SpecLive == InitLive /\ [][NextLive]_vars /\ WF_vars(RunTakesStep(StopMessages))

\* Runs: the runs of one session over every kind of stream message, with
\* faults of the tracker, the file system and the agent, starting with or
\* without an entry of an earlier process in the store file.
RunPayloads ==
    {CreatedPayload("s1", UserId, AgentId, TRUE),
     CreatedPayload("s1", UserId, AgentId, FALSE),
     PromptedPayload("s1", UserId, AgentId, TRUE, "a1", None, "msg")}

RunMessages ==
    {SystemMessage("c2"), TextMessage("c2", "short"), TextMessage(None, "long"),
     TextMessage(None, "clarify"), ToolUseMessage(None),
     ToolResultMessage(None, "out"), ResultMessage(None, "many")}

RunFiles == {FileMissing, SessionStoreWrite([k \in {"s1"} |-> "c1"])}

InitRun == \E f \in RunFiles : InitWith(Budget(RunRequests, MaxMessages, MaxFaults, 0), f)
NextRun ==
    \/ Deliver(RunPayloads)
    \/ \E i \in DOMAIN requests : HandleWebhook(i)
    \/ \E r \in DOMAIN runs : AckDone(r)
    \/ \E r \in DOMAIN runs : ResolveDone(r)
    \/ \E r \in DOMAIN runs : ResolveThrow(r)
    \/ \E r \in DOMAIN runs : StreamMessage(r, RunMessages)
    \/ \E r \in DOMAIN runs : NoteDone(r)
    \/ \E r \in DOMAIN runs : StreamEnd(r)
    \/ \E r \in DOMAIN runs : StreamThrow(r)
    \/ \E r \in DOMAIN runs : FinalDone(r)
    \/ \E r \in DOMAIN runs : RetryDone(r)
    \/ \E r \in DOMAIN runs : FallbackDone(r)
    \/ \E r \in DOMAIN runs : ErrorDone(r)
    \/ \E r \in DOMAIN runs : Finally(r)
SpecRun == InitRun /\ [][NextRun]_vars

\* Resumption: one run, created or follow-up, of a session with or without
\* an entry of an earlier run in the store file, with stream messages that
\* expose conversation ids and with faults.
ResumePayloads ==
    {CreatedPayload("s1", UserId, AgentId, TRUE),
     PromptedPayload("s1", UserId, AgentId, TRUE, "a1", None, "msg")}
ResumeMessages == {SystemMessage("c2"), TextMessage("c3", "long")}

InitResume ==
    \E f \in RunFiles : InitWith(Budget(ResumeRequests, MaxMessages, MaxFaults, 0), f)
NextResume ==
    \/ Deliver(ResumePayloads)
    \/ \E i \in DOMAIN requests : HandleWebhook(i)
    \/ \E r \in DOMAIN runs : AckDone(r)
    \/ \E r \in DOMAIN runs : ResolveDone(r)
    \/ \E r \in DOMAIN runs : ResolveThrow(r)
    \/ \E r \in DOMAIN runs : StreamMessage(r, ResumeMessages)
    \/ \E r \in DOMAIN runs : NoteDone(r)
    \/ \E r \in DOMAIN runs : StreamEnd(r)
    \/ \E r \in DOMAIN runs : StreamThrow(r)
    \/ \E r \in DOMAIN runs : FinalDone(r)
    \/ \E r \in DOMAIN runs : RetryDone(r)
    \/ \E r \in DOMAIN runs : FallbackDone(r)
    \/ \E r \in DOMAIN runs : ErrorDone(r)
    \/ \E r \in DOMAIN runs : Finally(r)
SpecResume == InitResume /\ [][NextResume]_vars

\* Capture: a run whose stream exposes conversation ids in several messages.
CaptureMessages == {SystemMessage("c2"), TextMessage("c3", "short"), TextMessage(None, "short")}

InitCapture ==
    \E f \in RunFiles : InitWith(Budget(CaptureRequests, MaxCaptured, 0, 0), f)
NextCapture ==
    \/ Deliver(ResumePayloads)
    \/ \E i \in DOMAIN requests : HandleWebhook(i)
    \/ \E r \in DOMAIN runs : AckDone(r)
    \/ \E r \in DOMAIN runs : ResolveDone(r)
    \/ \E r \in DOMAIN runs : StreamMessage(r, CaptureMessages)
    \/ \E r \in DOMAIN runs : StreamEnd(r)
    \/ \E r \in DOMAIN runs : FinalDone(r)
    \/ \E r \in DOMAIN runs : FallbackDone(r)
    \/ \E r \in DOMAIN runs : Finally(r)
SpecCapture == InitCapture /\ [][NextCapture]_vars

\* Finalizing: one run whose stream carries text blocks, one of them empty.
FinalMessages ==
    {TextMessage(None, "short"), TextMessage(None, "clarify"),
     TextMessage(None, ""), ToolUseMessage(None)}

InitFinal ==
    InitWith(Budget(FinalRequests, MaxBlocks, 0, 0), FileMissing)
NextFinal ==
    \/ Deliver({CreatedPayload("s1", UserId, AgentId, TRUE)})
    \/ \E i \in DOMAIN requests : HandleWebhook(i)
    \/ \E r \in DOMAIN runs : AckDone(r)
    \/ \E r \in DOMAIN runs : ResolveDone(r)
    \/ \E r \in DOMAIN runs : StreamMessage(r, FinalMessages)
    \/ \E r \in DOMAIN runs : NoteDone(r)
    \/ \E r \in DOMAIN runs : StreamEnd(r)
    \/ \E r \in DOMAIN runs : FinalDone(r)
    \/ \E r \in DOMAIN runs : FallbackDone(r)
    \/ \E r \in DOMAIN runs : Finally(r)
SpecFinal == InitFinal /\ [][NextFinal]_vars

\* Isolation: the events and runs of two sessions side by side, on a Session
\* Registry at its capacity in which the entry of session s2 has expired.
\* The events of s1 carry no issue: its runs return at once.
IsolationPayloads ==
    {CreatedPayload("s1", UserId, AgentId, FALSE),
     CreatedPayload("s2", UserId, AgentId, TRUE),
     PromptedPayload("s1", UserId, AgentId, FALSE, "a1", None, "msg"),
     PromptedPayload("s1", UserId, AgentId, FALSE, "a2", "stop", "")}

FullRegistry ==
    [k \in {<<"s2">>} \cup {<<ToString(n)>> : n \in 1..(MAX_SESSIONS - 1)}
        |-> IF k = <<"s2">> THEN 1 ELSE StartTime + SESSION_TTL_MS]

InitIsolation ==
    /\ now = StartTime + SESSION_TTL_MS
    /\ processedSessions = FullRegistry
    /\ runningAgents = EmptyMap
    /\ requests = <<>>
    /\ runs = EmptyMap
    /\ sessionStore = NewStore
    /\ file = SessionStoreWrite([k \in {"s1"} |-> "c1"])
    /\ activities = [s \in Sessions |-> <<>>]
    /\ budget = Budget(IsolationRequests, MaxMessages, 0, 0)
    /\ InitAside({Secret})
NextIsolation ==
    \/ Deliver(IsolationPayloads)
    \/ \E i \in DOMAIN requests : HandleWebhook(i)
    \/ \E i \in DOMAIN requests : StopAckDone(i)
    \/ \E r \in DOMAIN runs : AckDone(r)
    \/ \E r \in DOMAIN runs : ResolveDone(r)
    \/ \E r \in DOMAIN runs : StreamMessage(r, {SystemMessage("c2")})
    \/ \E r \in DOMAIN runs : StreamEnd(r)
    \/ \E r \in DOMAIN runs : FallbackDone(r)
    \/ \E r \in DOMAIN runs : Finally(r)
SpecIsolation == InitIsolation /\ [][NextIsolation]_vars

\* Restart: the events of one session, delivered again after the process
\* restarted, with an agent that exposes a conversation id.
RestartPayloads ==
    {CreatedPayload("s1", UserId, AgentId, TRUE),
     PromptedPayload("s1", UserId, AgentId, TRUE, "a1", None, "msg")}

InitRestart ==
    InitWith(Budget(RestartRequests, MaxMessages, 0, 0) @@ [restarts |-> MaxRestarts],
             FileMissing)
NextRestart ==
    \/ Deliver(RestartPayloads)
    \/ \E i \in DOMAIN requests : HandleWebhook(i)
    \/ \E r \in DOMAIN runs : AckDone(r)
    \/ \E r \in DOMAIN runs : ResolveDone(r)
    \/ \E r \in DOMAIN runs : StreamMessage(r, {SystemMessage("c2")})
    \/ \E r \in DOMAIN runs : StreamEnd(r)
    \/ \E r \in DOMAIN runs : FallbackDone(r)
    \/ \E r \in DOMAIN runs : Finally(r)
    \/ ProcessRestart
SpecRestart == InitRestart /\ [][NextRestart]_vars

\* Classification: signed deliveries of events of every kind the handler
\* tells apart, of events it ignores, and of the body "null".
ClassifyPayloads ==
    {CreatedPayload("s1", UserId, AgentId, FALSE),
     PromptedPayload("s1", UserId, AgentId, FALSE, "a1", None, "msg"),
     PromptedPayload("s1", UserId, AgentId, FALSE, "a2", "stop", ""),
     ProjectUpdatePayload("create", None, "u1", UserId, TRUE),
     ProjectUpdatePayload("create", None, "u2", UserId, FALSE),
     ProjectUpdatePayload("update", None, "u1", UserId, TRUE),
     CommentPayload("create", None, "k1", UserId, "u1", TRUE, FALSE),
     CommentPayload("create", None, "k2", UserId, None, FALSE, FALSE),
     CommentPayload("update", None, "k1", UserId, "u1", TRUE, FALSE),
     DataPayload("Issue", "create", None, NoData),
     JsonNull}

InitClassify == InitWith(Budget(ClassifyRequests, 0, MaxFaults, 0), FileMissing)
NextClassify ==
    \/ Deliver(ClassifyPayloads)
    \/ \E i \in DOMAIN requests : HandleWebhook(i)
    \/ \E i \in DOMAIN requests : StopAckDone(i)
    \/ \E r \in DOMAIN runs : Finally(r)
SpecClassify == InitClassify /\ [][NextClassify]_vars

\* Updates: project updates that mention the agent and comments in their
\* threads, written by a user, by the agent or by nobody named, in payloads
\* with and without appUserId, delivered over time.
UpdatePayloads ==
    {ProjectUpdatePayload("create", None, "u1", UserId, TRUE),
     ProjectUpdatePayload("create", AgentId, "u1", AgentId, TRUE),
     ProjectUpdatePayload("create", None, "u2", AgentId, TRUE),
     ProjectUpdatePayload("create", None, "u2", None, TRUE),
     CommentPayload("create", None, "k1", UserId, "u1", TRUE, FALSE),
     CommentPayload("create", None, "k1", AgentId, "u1", TRUE, TRUE),
     CommentPayload("create", AgentId, "k2", AgentId, "u1", TRUE, FALSE)}

InitUpdates == InitWith(Budget(UpdateRequests, 0, 0, MaxTicks), FileMissing)
NextUpdates ==
    \/ Deliver(UpdatePayloads)
    \/ \E i \in DOMAIN requests : HandleWebhook(i)
SpecUpdates == InitUpdates /\ [][NextUpdates]_vars

\* Follow-ups whose agentActivity has no id, with different messages, of two
\* sessions, and one follow-up with an id, delivered over time. No session has
\* an issue: every run returns at once.
UnknownPayloads ==
    {PromptedPayload("s1", UserId, AgentId, FALSE, None, None, "msg"),
     PromptedPayload("s1", UserId, AgentId, FALSE, None, None, "more"),
     PromptedPayload("s1", UserId, AgentId, FALSE, "a1", None, "msg"),
     PromptedPayload("s2", UserId, AgentId, FALSE, None, None, "msg")}

InitUnknown == InitWith(Budget(UnknownRequests, 0, 0, MaxTicks), FileMissing)
NextUnknown ==
    \/ Deliver(UnknownPayloads)
    \/ \E i \in DOMAIN requests : HandleWebhook(i)
    \/ \E r \in DOMAIN runs : Finally(r)
SpecUnknown == InitUnknown /\ [][NextUnknown]_vars

\* Repeated stops: a created event and a follow-up of a session without an
\* issue (their runs return at once and keep the handle until the finally
\* callback runs), and stop signals of that session and of another.
TwicePayloads ==
    {CreatedPayload("s1", UserId, AgentId, FALSE),
     PromptedPayload("s1", UserId, AgentId, FALSE, "a1", None, "msg"),
     PromptedPayload("s1", UserId, AgentId, FALSE, "a2", "stop", ""),
     PromptedPayload("s2", UserId, AgentId, FALSE, "a2", "stop", "")}

InitTwice == InitWith(Budget(TwiceRequests, 0, 0, 0), FileMissing)
NextTwice ==
    \/ Deliver(TwicePayloads)
    \/ \E i \in DOMAIN requests : HandleWebhook(i)
    \/ \E i \in DOMAIN requests : StopAckDone(i)
    \/ \E r \in DOMAIN runs : Finally(r)
SpecTwice == InitTwice /\ [][NextTwice]_vars

\* Retry: follow-ups of a session whose conversation of an earlier process is
\* in the store file, to an agent whose stream ends or fails at once.
RetryPayloads ==
    {PromptedPayload("s1", UserId, AgentId, TRUE, a, None, "msg") : a \in ActivityIds}
RetryFile == SessionStoreWrite([k \in {"s1"} |-> "c1"])

InitRetry == InitWith(Budget(RetryRequests, 0, MaxFaults, 0), RetryFile)
NextRetry ==
    \/ Deliver(RetryPayloads)
    \/ \E i \in DOMAIN requests : HandleWebhook(i)
    \/ \E r \in DOMAIN runs : AckDone(r)
    \/ \E r \in DOMAIN runs : ResolveDone(r)
    \/ \E r \in DOMAIN runs : ResolveThrow(r)
    \/ \E r \in DOMAIN runs : StreamEnd(r)
    \/ \E r \in DOMAIN runs : StreamThrow(r)
    \/ \E r \in DOMAIN runs : FallbackDone(r)
    \/ \E r \in DOMAIN runs : ErrorDone(r)
    \/ \E r \in DOMAIN runs : Finally(r)
SpecRetry == InitRetry /\ [][NextRetry]_vars

\* Writes of the store file by the two processes, step by step, with crashes.
WriteMappings == {[k \in {"s1"} |-> c] : c \in {"c1", "c2"}}

InitWrite ==
    /\ InitServer(Budget(0, 0, 0, 0), FileMissing)
    /\ fs \in {NoDisk, [real |-> 1, tmp |-> 0, inodes |-> <<Complete(EmptyMap)>>]}
    /\ procs = [p \in Procs |-> IdleProc(MaxWrites)]
    /\ ledger = <<>>
    /\ draft = <<>>
    /\ outbox = NoContent
    /\ WEBHOOK_SECRET = Secret
NextWrite ==
    \/ \E p \in Procs : WriteOpen(p, WriteMappings)
    \/ \E p \in Procs : WriteChunk(p)
    \/ \E p \in Procs : WriteRename(p)
    \/ \E p \in Procs : Crash(p)
SpecWrite == InitWrite /\ [][NextWrite]_vars

\* Calls of set and delete on the store of one process, with restarts, for
\* an ordinary session id and one that names a property of Object.prototype.
StoreKeys == {"s1", "constructor"}
StoreValues == {"c1", "c2"}

InitStore == InitWith(Budget(0, 0, 0, 0), FileMissing)
NextStore ==
    \/ StoreSet(StoreKeys, StoreValues)
    \/ StoreDelete(StoreKeys)
    \/ Restart
SpecStore == InitStore /\ [][NextStore]_vars

\* Corrupt store: the calls of the SessionStore, and restarts, on a file that
\* is missing or does not hold a mapping.
CorruptKeys == {"s1", "s2"}
InitCorrupt ==
    \E f \in {FileMissing} \cup {BadFile(kind) : kind \in BadKinds} :
        InitWith(Budget(0, 0, 0, 0), f)
NextCorrupt ==
    \/ StoreSet(CorruptKeys, {"c1"})
    \/ StoreDelete(CorruptKeys)
    \/ Restart
SpecCorrupt == InitCorrupt /\ [][NextCorrupt]_vars

\* The contents composed from every text of up to MaxText tokens.
Alphabet == {"@", "claude", " ", CLARIFICATION_MARKER, Filler}
Texts == UNION {[1..n -> Alphabet] : n \in 0..MaxText}

InitText ==
    /\ InitServer(Budget(0, 0, 0, 0), FileMissing)
    /\ fs = NoDisk
    /\ procs = <<>>
    /\ ledger = <<>>
    /\ draft \in Texts
    /\ outbox = NoContent
    /\ WEBHOOK_SECRET = Secret
NextText ==
    \/ ComposeThought
    \/ ComposeAction
    \/ ComposeToolResult
    \/ ComposeFinal
    \/ ComposeError
SpecText == InitText /\ [][NextText]_vars

\* Forgery: requests with every kind of signature header, on a parseable and
\* on an unparseable body, to a server started with or without the secret.
ForgedBodies == {CreatedPayload("s1", UserId, AgentId, FALSE), Garbage}
InitForged ==
    /\ InitServer(Budget(ForgedRequests, 0, 0, 0), FileMissing)
    /\ InitAside({Secret, None})
NextForged ==
    \/ Post(ForgedBodies, SignatureKinds)
    \/ \E i \in DOMAIN requests : HandleWebhook(i)
    \/ \E r \in DOMAIN runs : Finally(r)
SpecForged == InitForged /\ [][NextForged]_vars

\* Bad requests: signed deliveries of bodies that are not JSON, of session
\* events without the session object and of follow-ups without a message,
\* next to well-formed ones.
BadBodies ==
    {Garbage,
     CreatedPayload(None, UserId, AgentId, FALSE),
     PromptedPayload(None, UserId, AgentId, FALSE, "a1", None, "msg"),
     PromptedPayload("s1", UserId, AgentId, FALSE, "a1", None, ""),
     CreatedPayload("s1", UserId, AgentId, FALSE),
     PromptedPayload("s1", UserId, AgentId, FALSE, "a1", None, "msg")}
InitBad == InitWith(Budget(BadRequests, 0, 0, 0), FileMissing)
NextBad ==
    \/ Deliver(BadBodies)
    \/ \E i \in DOMAIN requests : HandleWebhook(i)
    \/ \E r \in DOMAIN runs : Finally(r)
SpecBad == InitBad /\ [][NextBad]_vars

\* ---------------------------------------------------------------------------
\* Properties
\* ---------------------------------------------------------------------------
\* The handler of request j runs its synchronous section in this step.
HandledNow(j) == requests[j].pc = "body" /\ requests'[j].pc # "body"

Duplicate == Response(200, "duplicate", None, FALSE)
Received == Response(200, None, None, FALSE)

IsFollowUp(payload) == isAgentSessionPrompted(payload) /\ StartsRuns(payload)

\* The runs a session-created event of session s started less than a TTL ago.
CreatedRunsWithin(s) ==
    {r \in DOMAIN runs :
        /\ isAgentSessionCreated(requests[r].payload)
        /\ runs[r].session = s
        /\ now' - runs[r].at < SESSION_TTL_MS}

\* C1: a session-created delivery for a session whose session-created run was
\* started less than the TTL ago is answered 200 skipped "duplicate" and
\* starts no run, so at most one such run is started per session and window.
Idempotency ==
    [][\A j \in DOMAIN requests :
         (/\ HandledNow(j)
          /\ isAgentSessionCreated(requests[j].payload)
          /\ CreatedRunsWithin(requests[j].payload.session) # {})
         => /\ requests'[j].response = Duplicate
            /\ requests'[j].pc = "done"
            /\ DOMAIN runs' = DOMAIN runs]_vars

IdempotencyWitness ==
    \E j \in DOMAIN requests, r \in DOMAIN runs :
        /\ j # r
        /\ isAgentSessionCreated(requests[j].payload)
        /\ isAgentSessionCreated(requests[r].payload)
        /\ requests[j].payload.session = runs[r].session
        /\ requests[j].pc = "done"
        /\ requests[j].response = Duplicate

\* C4: of two requests with the same dedup key whose handlers overlap, the
\* one handled first records the key in the step that starts its run, and the
\* other, handled within the TTL, is answered "duplicate" and starts no run.
AtomicCheckAndRecord ==
    [][/\ \A r \in DOMAIN runs' \ DOMAIN runs :
            /\ KeyOf(requests[r].payload) \in DOMAIN processedSessions'
            /\ processedSessions'[KeyOf(requests[r].payload)] = now'
       /\ \A j \in DOMAIN requests :
            (/\ HandledNow(j)
             /\ \E i \in DOMAIN runs :
                    /\ j \in requests[i].rivals
                    /\ now' - runs[i].at < SESSION_TTL_MS)
            => /\ requests'[j].response = Duplicate
               /\ DOMAIN runs' = DOMAIN runs]_vars

AtomicCheckAndRecordWitness ==
    \E i \in DOMAIN runs :
        \E j \in requests[i].rivals :
            /\ requests[j].pc = "done"
            /\ requests[j].response = Duplicate
            /\ j \notin DOMAIN runs

\* The follow-up runs of the session and sub-event id of payload p that were
\* started less than a TTL ago.
FollowUpRunsWithin(p) ==
    {r \in DOMAIN runs :
        /\ IsFollowUp(requests[r].payload)
        /\ requests[r].payload.session = p.session
        /\ requests[r].payload.activityId = p.activityId
        /\ now' - runs[r].at < SESSION_TTL_MS}

\* C5: a follow-up starts a run unless a follow-up of the same session with
\* the same sub-event id started one less than the TTL ago; then it is
\* answered skipped "duplicate". Follow-ups with other sub-event ids do not
\* count.
FollowUpDeduplication ==
    [][\A j \in DOMAIN requests :
         (HandledNow(j) /\ IsFollowUp(requests[j].payload))
         => IF FollowUpRunsWithin(requests[j].payload) # {}
            THEN /\ requests'[j].response = Duplicate
                 /\ DOMAIN runs' = DOMAIN runs
            ELSE /\ requests'[j].response = Received
                 /\ DOMAIN runs' = DOMAIN runs \cup {j}]_vars

FollowUpDeduplicationWitness ==
    \E i \in DOMAIN runs, j \in DOMAIN runs :
        /\ i < j
        /\ IsFollowUp(requests[i].payload)
        /\ IsFollowUp(requests[j].payload)
        /\ requests[i].payload.session = requests[j].payload.session
        /\ requests[i].payload.activityId # requests[j].payload.activityId
        /\ runs[j].at - runs[i].at < SESSION_TTL_MS

\* The completed emitActivity calls of session s, and those a run made.
Log(s) == activities[s]
Ended(r) == runs[r].pc \in {"settled", "closed"}
Handled(j) == requests[j].pc # "body"
IsStop(payload) == isAgentSessionPrompted(payload) /\ isStopSignal(payload)

\* The final activities of a run: the final response or elicitation (its one
\* retry is the same activity sent again), the fallback response and the error.
RunTerminals == {"final", "retry", "fallback", "error"}
EmittedBy(r, whats) ==
    {k \in DOMAIN Log(runs[r].session) :
        Log(runs[r].session)[k].run = r /\ Log(runs[r].session)[k].what \in whats}

\* C2: every handled event whose creator is the agent itself is answered
\* skipped "self-trigger" and starts no run.
SelfTriggerSafety ==
    \A j \in DOMAIN requests :
        (/\ Handled(j)
         /\ StartsRuns(requests[j].payload)
         /\ isSelfTrigger(requests[j].payload))
        => /\ requests[j].response.skipped = "self-trigger"
           /\ j \notin DOMAIN runs

\* C3: a stop signal handled while runs of its session are in flight aborts
\* them, is answered "stop-acknowledged" with cancelled true and emits the
\* acknowledgement; handled while no run of the session is left, it is
\* answered 200 with cancelled false and emits nothing.
StopCorrectness ==
    \A j \in DOMAIN requests :
        (Handled(j) /\ IsStop(requests[j].payload))
        => /\ requests[j].response.action = "stop-acknowledged"
           /\ requests[j].live # {}
              => /\ requests[j].response.cancelled
                 /\ \A r \in requests[j].live : runs[r].aborted
                 /\ requests[j].pc = "done"
                    => \E k \in DOMAIN Log(requests[j].payload.session) :
                           Log(requests[j].payload.session)[k].what = "stopack"
           /\ requests[j].idle
              => /\ requests[j].response = Response(200, None, "stop-acknowledged", FALSE)
                 /\ requests[j].pc = "done"

\* The terminal activities about run r: its own and the acknowledgement of
\* the stop that aborted it.
TerminalsAbout(r) ==
    {k \in DOMAIN Log(runs[r].session) :
        /\ Log(runs[r].session)[k].about = r
        /\ Log(runs[r].session)[k].what \in {"final", "fallback", "error", "stopack"}}

\* C6: a run that has ended has exactly one terminal activity, and none of
\* its progress or action notes comes after it.
ExactlyOneTerminal ==
    \A r \in DOMAIN runs :
        Ended(r)
        => /\ Cardinality(TerminalsAbout(r)) = 1
           /\ \A k \in EmittedBy(r, {"ack", "note"}) :
                  \A t \in TerminalsAbout(r) : k < t

\* C7: a run aborted while Streaming (at the iterator or at the emitActivity
\* of a note) emits no final response, elicitation, fallback or error.
CancelledPath ==
    \A r \in DOMAIN runs :
        runs[r].abortedIn \in {"stream", "note"} => EmittedBy(r, RunTerminals) = {}

\* C8: once a run that failed has ended, the store has no entry for its
\* session.
FailedRunLeavesNoEntry ==
    \A r \in DOMAIN runs :
        (Ended(r) /\ (runs[r].failed \/ runs[r].rejected))
        => SessionStoreGet(sessionStore, file, runs[r].session) = None

\* C9: a run that has ended has emitted a final activity, and its promise is
\* not rejected.
RunEndsWithTerminal ==
    \A r \in DOMAIN runs :
        Ended(r) => ~runs[r].rejected /\ EmittedBy(r, RunTerminals) # {}

\* C10: a run whose write of the store failed when it recorded the
\* conversation id ends with its final or fallback response and no error.
PersistFailureKeepsRun ==
    \A r \in DOMAIN runs :
        (Ended(r) /\ runs[r].persistFailed)
        => /\ EmittedBy(r, {"final", "retry", "fallback"}) # {}
           /\ EmittedBy(r, {"error"}) = {}
           /\ ~runs[r].rejected

\* C11: whenever the store file exists, its content is a complete mapping.
StoreFileNeverPartial ==
    fs.real # 0 => Parse(fs.inodes[fs.real]).ok

\* The value of the last set of key k in calls that no delete of k follows.
RECURSIVE LastSet(_, _)
LastSet(calls, k) ==
    IF calls = <<>> THEN None
    ELSE IF calls[Len(calls)].key = k
    THEN calls[Len(calls)].value
    ELSE LastSet(SubSeq(calls, 1, Len(calls) - 1), k)

\* C12: a new store on the same file returns, for every session id, the
\* conversation id of the last set no delete follows, and none otherwise.
ResumptionRoundTrip ==
    \A k \in StoreKeys : SessionStoreGet(NewStore, file, k) = LastSet(ledger, k)

HasToken(text, tok) == \E i \in DOMAIN text : text[i] = tok

\* The text before the first marker and the text after it.
BeforeMarker(text) == SubSeq(text, 1, IndexOf(text, CLARIFICATION_MARKER) - 1)
AfterMarker(text) == SubSeq(text, IndexOf(text, CLARIFICATION_MARKER) + 1, Len(text))

\* The text without its white space.
Strip(text) == SelectSeq(text, LAMBDA tok : ~IsSpace(tok))

\* C13: the final activity of a text with the marker is an elicitation whose
\* body is, up to white space and sanitization, the text before the marker
\* followed by the text after it, and does not contain the marker; that of a text without the marker is a response
\* with the text, sanitized and capped.
ClarificationSplit ==
    outbox.site = "final"
    => IF HasToken(draft, CLARIFICATION_MARKER)
       THEN /\ outbox.type = "elicitation"
            /\ ~HasToken(outbox.body, CLARIFICATION_MARKER)
            /\ Strip(outbox.body) =
                   Strip(sanitizeMentions(BeforeMarker(draft) \o <<Sep>> \o AfterMarker(draft)))
       ELSE /\ outbox.type = "response"
            /\ outbox.body = sanitizeMentions(Slice(draft, 2000))

\* The text holds the agent's mention token, "@claude" in any case.
HasMention(text) ==
    \E i \in 1..(Len(text) - 1) : text[i] = "@" /\ text[i + 1] \in {"claude", "Claude"}

\* C18: no composed activity content has the mention token in its body.
NoMentionInBodies ==
    outbox.site # None => ~HasMention(outbox.body)

\* The signature of request j is missing, empty, or is not the keyed hash of
\* the body of j under the shared secret.
BadSignature(j) ==
    requests[j].signature # Digest(Secret, requests[j].payload)

\* C14: a request whose signature is missing, empty or does not match the
\* keyed hash of its body under the shared secret is answered 401, whether
\* or not the body parses, and the step that answers it leaves the Session
\* Registry, the Cancellation Registry and the Resumption Store unchanged,
\* emits no activity and starts no run; the verification does not throw.
SignatureRejected ==
    [][\A j \in DOMAIN requests :
         HandledNow(j) /\ BadSignature(j) =>
             /\ requests'[j].response.status = 401
             /\ ~verifySignatureThrows(requests[j].signature, WEBHOOK_SECRET)
             /\ UNCHANGED <<processedSessions, runningAgents, sessionStore, file,
                            activities, runs>>]_vars

\* The body of a request is not JSON, or is a session event without the
\* session object, or a follow-up that is no stop and has no message text.
Malformed(payload) ==
    \/ payload.type = "garbage"
    \/ /\ payload.type = "AgentSessionEvent"
       /\ payload.action \in {"created", "prompted"}
       /\ \/ payload.session = None
          \/ payload.action = "prompted" /\ payload.signal # "stop" /\ payload.body = ""

\* C15: a request with a valid signature whose body is not JSON, whose
\* session event lacks the session object, or whose follow-up (not a stop)
\* has no message text is answered 400, and the step that answers it starts
\* no run, records no dedup key and registers no cancellation handle.
BadRequestRejected ==
    [][\A j \in DOMAIN requests :
         HandledNow(j) /\ ~BadSignature(j) /\ Malformed(requests[j].payload) =>
             /\ requests'[j].response.status = 400
             /\ UNCHANGED <<runs, processedSessions, runningAgents>>]_vars

\* A follow-up without a message was answered 400 after a well-formed event
\* of the same session had started a run.
BadRequestRejectedWitness ==
    \E j \in DOMAIN requests, r \in DOMAIN runs :
        /\ r < j
        /\ Handled(j)
        /\ ~BadSignature(j)
        /\ isAgentSessionPrompted(requests[j].payload)
        /\ requests[j].payload.session = runs[r].session
        /\ getPromptedMessage(requests[j].payload) = None
        /\ requests[j].response.status = 400
        /\ DOMAIN runs = {r}

\* Run r is executing: runAgent was called and the callbacks chained to its
\* promise have not all run.
Executing(r) == r \in DOMAIN runs /\ runs[r].pc # "closed"

\* C16: the Cancellation Registry maps a session id to one handle; whenever
\* it holds a handle for a session, the handle is that of a run of this
\* session which is executing, so that no handle remains once every run of
\* the session has ended.
HandleOnlyWhileRunning ==
    \A s \in DOMAIN runningAgents :
        /\ Executing(runningAgents[s])
        /\ runs[runningAgents[s]].session = s

\* Two runs of a session were started; the later one has ended and taken
\* the handle with it while the earlier one is still executing.
HandleOnlyWhileRunningWitness ==
    \E r1, r2 \in DOMAIN runs :
        /\ r1 < r2
        /\ runs[r1].session = runs[r2].session
        /\ runs[r2].pc = "closed"
        /\ Executing(r1)
        /\ runs[r1].session \notin DOMAIN runningAgents

\* C17: with a finite agent stream and outbound calls that return, every run
\* that was started eventually ends, whether it succeeded, failed or was
\* cancelled, and the step in which it ends leaves the Cancellation Registry
\* without a handle for its session.
RunsEndAndRelease ==
    /\ \A r \in 1..HandleRequests :
           (r \in DOMAIN runs) ~> (r \in DOMAIN runs /\ runs[r].pc = "closed")
    /\ [][\A r \in DOMAIN runs :
             (runs[r].pc # "closed" /\ runs'[r].pc = "closed")
                 => runs[r].session \notin DOMAIN runningAgents']_vars

\* A run that a stop aborted and a run that failed have both ended, and the
\* registry is empty.
RunsEndAndReleaseWitness ==
    \E r \in DOMAIN runs :
        /\ runs[r].pc = "closed"
        /\ runs[r].aborted
        /\ runs[r].failed
        /\ runs[r].session \notin DOMAIN runningAgents

\* C19: the step of the handler that starts a run for a session-created or
\* follow-up event also produces the response {received: true}, with the run
\* at its first await (or returned, when the session has no issue) and no
\* activity emitted; so the request of every run, whatever state the run is
\* in, has been answered.
AckWithoutWaiting ==
    [][/\ \A j \in DOMAIN requests :
             (j \notin DOMAIN runs /\ j \in DOMAIN runs')
                 => /\ HandledNow(j)
                    /\ requests'[j].response = Received
                    /\ runs'[j].pc = IF requests[j].payload.issue
                                     THEN "ack" ELSE "settled"
                    /\ activities' = activities
        /\ \A r \in DOMAIN runs' : requests'[r].response = Received]_vars

\* A created event and a follow-up were answered {received: true}; the run
\* of the first has not got past its acknowledgement activity.
AckWithoutWaitingWitness ==
    \E r1, r2 \in DOMAIN runs :
        /\ isAgentSessionCreated(requests[r1].payload)
        /\ isAgentSessionPrompted(requests[r2].payload)
        /\ runs[r1].pc = "ack"
        /\ requests[r1].response = Received
        /\ requests[r2].response = Received

\* C20: after a stop signal that was answered cancelled: true, every run of
\* its session that was in flight when the handler ran has been aborted.
StopAbortsEveryRun ==
    \A j \in DOMAIN requests :
        (Handled(j) /\ IsStop(requests[j].payload) /\ requests[j].response.cancelled)
        => \A r \in requests[j].live : runs[r].aborted

\* C21: the step in which a run ends removes from the Cancellation Registry
\* no handle but its own: a handle registered by another run that is still in
\* flight stays registered.
EndRemovesOwnHandle ==
    [][\A r \in DOMAIN runs :
         (runs[r].pc = "settled" /\ runs'[r].pc = "closed")
             => \A s \in DOMAIN runningAgents :
                    (runningAgents[s] # r /\ InFlight(runningAgents[s]))
                        => /\ s \in DOMAIN runningAgents'
                           /\ runningAgents'[s] = runningAgents[s]]_vars

\* The entries of the Resumption Store as the next read finds them.
StoreEntries == SessionStoreLoad(sessionStore, file).data

\* C22: in the step that invokes the agent, the run resumes a conversation
\* exactly if it is a follow-up and the Resumption Store holds an entry for
\* its session: the resume id is then that entry and the prompt the message
\* alone; otherwise there is no resume id and the prompt is the full one.
ResumeIffFollowUpWithEntry ==
    [][\A r \in DOMAIN runs :
         (runs[r].pc = "resolve" /\ runs'[r].pc = "stream")
             => IF runs[r].followUp /\ runs[r].session \in DOMAIN StoreEntries
                THEN /\ runs'[r].existing = StoreEntries[runs[r].session]
                     /\ runs'[r].prompt = "message"
                ELSE /\ runs'[r].existing = None
                     /\ runs'[r].prompt = "full"]_vars

\* A follow-up run was invoked with the stored conversation id and the
\* message alone.
ResumeIffFollowUpWithEntryWitness ==
    \E r \in DOMAIN runs :
        /\ runs[r].followUp
        /\ runs[r].existing = "c1"
        /\ runs[r].prompt = "message"
        /\ runs[r].pc = "stream"

\* Run r resumed a stored conversation and has failed.
FailedResume(r) == runs[r].existing # None /\ runs[r].failed

CallsOf(r) ==
    {k \in DOMAIN Log(runs[r].session) : Log(runs[r].session)[k].run = r}

\* C24: the first activity a run emits is the acknowledgement, a progress
\* note; while it is awaited the run has resolved no directory, read no
\* store entry and invoked no agent, and a run that has got further has
\* emitted it.
AcknowledgementFirst ==
    \A r \in DOMAIN runs :
        /\ \A k \in CallsOf(r) :
               (\A j \in CallsOf(r) : k <= j)
                   => /\ Log(runs[r].session)[k].what = "ack"
                      /\ Log(runs[r].session)[k].type = "thought"
        /\ runs[r].pc = "ack"
               => /\ CallsOf(r) = {}
                  /\ runs[r].existing = None
                  /\ runs[r].prompt = None
        /\ (requests[r].payload.issue /\ runs[r].pc # "ack") => CallsOf(r) # {}
        /\ runs[r].prompt # None => CallsOf(r) # {}

\* A follow-up run resumed the stored conversation and emitted a note of
\* the stream after its acknowledgement.
AcknowledgementFirstWitness ==
    \E r \in DOMAIN runs :
        /\ runs[r].followUp
        /\ runs[r].existing = "c1"
        /\ Cardinality(CallsOf(r)) >= 2
        /\ \E k \in CallsOf(r) : Log(runs[r].session)[k].what = "note"

\* C25: once a run has ended, each attempt at its final activity (final
\* response, elicitation or fallback) that failed was followed by one more
\* attempt of the same type, there were at most two attempts, and a failed
\* attempt led to no error activity and no rejection of the run.
FinalRetriedOnce ==
    \A r \in DOMAIN runs :
        Ended(r) =>
            LET log == Log(runs[r].session)
                first == EmittedBy(r, {"final", "fallback"})
                second == EmittedBy(r, {"retry"})
            IN  /\ Cardinality(first \cup second) <= 2
                /\ \A k \in first :
                       log[k].result # "ok"
                           => /\ \E j \in second : j > k /\ log[j].type = log[k].type
                              /\ EmittedBy(r, {"error"}) = {}
                              /\ ~runs[r].rejected

\* C26: the step of the handler for a verified prompted event with the stop
\* marker, with or without message text, takes the stop branch (the one that
\* answers "stop-acknowledged"), starts no run, records no dedup key and
\* registers no cancellation handle.
StopMarkerWins ==
    [][\A j \in DOMAIN requests :
         (/\ HandledNow(j)
          /\ ~BadSignature(j)
          /\ isAgentSessionPrompted(requests[j].payload)
          /\ requests[j].payload.session # None
          /\ requests[j].payload.signal = "stop")
             => /\ requests'[j].response.action = "stop-acknowledged"
                /\ DOMAIN runs' = DOMAIN runs
                /\ processedSessions' = processedSessions
                /\ DOMAIN runningAgents' \subseteq DOMAIN runningAgents]_vars

\* A stop signal that carries message text was handled while a run of its
\* session was in flight, and cancelled it.
StopMarkerWinsWitness ==
    \E j \in DOMAIN requests :
        /\ Handled(j)
        /\ requests[j].payload.signal = "stop"
        /\ requests[j].payload.body # ""
        /\ requests[j].response.cancelled
        /\ DOMAIN runs = {1}
        /\ runs[1].aborted

\* C27: a step of the handler that answers skipped: duplicate or skipped:
\* self-trigger changes neither the Session Registry nor the Cancellation
\* Registry, starts no run and emits no activity; and a session-created event
\* that is no self-trigger, for a session no created event of which has
\* started a run, starts a run, whatever was skipped before.
SkipChangesNothing ==
    [][\A j \in DOMAIN requests :
         HandledNow(j) =>
             /\ requests'[j].response.skipped \in {"duplicate", "self-trigger"}
                    => UNCHANGED <<processedSessions, runningAgents, runs,
                                   activities, sessionStore, file>>
             /\ (/\ isAgentSessionCreated(requests[j].payload)
                 /\ ~isSelfTrigger(requests[j].payload)
                 /\ \A r \in DOMAIN runs :
                        ~(/\ isAgentSessionCreated(requests[r].payload)
                          /\ runs[r].session = requests[j].payload.session))
                    => j \in DOMAIN runs']_vars

\* A created event of the agent itself was skipped as self-trigger, a later
\* one of a user for the same session started a run, and a third delivery
\* was skipped as duplicate.
SkipChangesNothingWitness ==
    \E i, j, k \in DOMAIN requests :
        /\ i < j
        /\ requests[i].response.skipped = "self-trigger"
        /\ j \in DOMAIN runs
        /\ isAgentSessionCreated(requests[j].payload)
        /\ requests[j].payload.session = requests[i].payload.session
        /\ requests[k].response.skipped = "duplicate"

\* Request j is an event that starts a run unless it is skipped.
Startable(j) ==
    /\ ~BadSignature(j)
    /\ requests[j].payload.session # None
    /\ StartsRuns(requests[j].payload)
    /\ ~(isAgentSessionCreated(requests[j].payload) /\ isSelfTrigger(requests[j].payload))

\* C28: when the handler runs for an event whose dedup key is recorded, the
\* event is skipped as duplicate if the entry is younger than the TTL at the
\* handler's reading of the clock; at the TTL or later a run is started and
\* the key is recorded again with the time of that reading.
ExpiredKeyIsFresh ==
    [][\A j \in DOMAIN requests :
         (/\ HandledNow(j)
          /\ Startable(j)
          /\ KeyOf(requests[j].payload) \in DOMAIN processedSessions)
             => IF now' - processedSessions[KeyOf(requests[j].payload)] >= SESSION_TTL_MS
                THEN /\ j \in DOMAIN runs'
                     /\ requests'[j].response = Received
                     /\ processedSessions'[KeyOf(requests[j].payload)] = now'
                ELSE /\ requests'[j].response = Duplicate
                     /\ j \notin DOMAIN runs']_vars

\* A created event was delivered again exactly one TTL after the run of the
\* first delivery was started, and started a second run.
ExpiredKeyIsFreshWitness ==
    \E q, r \in DOMAIN runs :
        /\ q < r
        /\ isAgentSessionCreated(requests[q].payload)
        /\ requests[q].payload = requests[r].payload
        /\ runs[r].at - runs[q].at = SESSION_TTL_MS
        /\ processedSessions[sessionKey(requests[r].payload)] = runs[r].at

\* C29: a step that records a dedup key removes an entry only if the entry
\* is older than the TTL at the time of recording and the registry held at
\* least MAX_SESSIONS entries before; every other entry keeps its timestamp
\* and the recorded key gets the time of recording.
SweepOnlyExpiredAtCapacity ==
    [][processedSessions' # processedSessions =>
         LET removed == DOMAIN processedSessions \ DOMAIN processedSessions'
             added == DOMAIN processedSessions' \ DOMAIN processedSessions
         IN  /\ \A k \in removed : now' - processedSessions[k] > SESSION_TTL_MS
             /\ removed # {} => Cardinality(DOMAIN processedSessions) >= MAX_SESSIONS
             /\ Cardinality(added) <= 1
             /\ \A k \in DOMAIN processedSessions' :
                    \/ processedSessions'[k] = now'
                    \/ k \in DOMAIN processedSessions
                       /\ processedSessions'[k] = processedSessions[k]]_vars

\* The registry has grown beyond the capacity: a key was recorded at
\* capacity while no entry was older than the TTL.
SweepOnlyExpiredAtCapacityWitness ==
    /\ Cardinality(DOMAIN processedSessions) > MAX_SESSIONS
    /\ \E k \in DOMAIN processedSessions : processedSessions[k] = 1

\* C30: a run passes at most one conversation id to the Resumption Store,
\* the one of the first message of its stream that exposed an id; a step of
\* the run for a later message leaves the store as it is.
CaptureOnce ==
    [][\A r \in DOMAIN runs' :
         /\ Len(runs'[r].sets) <= 1
         /\ runs'[r].sets = IF runs'[r].first = None THEN <<>> ELSE <<runs'[r].first>>
         /\ (r \in DOMAIN runs /\ runs[r].first # None /\ runs'[r] # runs[r])
                => StoreEntries' = StoreEntries]_vars

\* A run recorded c2 from its first message and then consumed a message
\* exposing c3; the store holds c2.
CaptureOnceWitness ==
    \E r \in DOMAIN runs :
        /\ runs[r].first = "c2"
        /\ runs[r].responseText # ""
        /\ StoreEntries[runs[r].session] = "c2"

\* C31: a run that finalizes takes the body of its final activity from the
\* most recent text block of its stream, and it emits the fallback response
\* exactly when no text block of its stream held any text.
FinalFromLatestText ==
    \A r \in DOMAIN runs :
        /\ runs[r].pc = "final"
               => runs[r].last # None /\ runs[r].responseText = runs[r].last
        /\ runs[r].pc \in {"final", "fallback"}
               => (runs[r].pc = "fallback" <=> ~runs[r].spoke)

\* The cases of the dispatch chain (server.ts 125, 192, 200, 281, 332).
Classes == {"created", "follow-up", "stop", "mention-update", "thread-reply"}
InClass(c, payload) ==
    CASE c = "created" -> isAgentSessionCreated(payload)
      [] c = "follow-up" -> isAgentSessionPrompted(payload) /\ ~isStopSignal(payload)
      [] c = "stop" -> isAgentSessionPrompted(payload) /\ isStopSignal(payload)
      [] c = "mention-update" -> isProjectUpdateMention(payload)
      [] c = "thread-reply" -> isProjectUpdateCommentForClaude(payload)
Ignored(payload) == \A c \in Classes : ~InClass(c, payload)

\* C32: the step of the handler for a verified, parseable payload treats it
\* as a member of at most one of the cases created, follow-up, stop,
\* mention-update and thread-reply, and takes the branch of that case only;
\* a payload of none of them is answered 200 {received: true} and the step
\* starts no run and no handler and leaves the registries and the store as
\* they are.
ClassifiedOnce ==
    [][\A i \in DOMAIN requests :
         (/\ requests[i].pc = "body"
          /\ requests'[i].pc # "body"
          /\ ~BadSignature(i)
          /\ ~parseWebhookPayloadThrows(requests[i].payload))
         => LET payload == requests[i].payload
            IN  /\ Cardinality({c \in Classes : InClass(c, payload)}) <= 1
                /\ i \in DOMAIN runs'
                       => InClass("created", payload) \/ InClass("follow-up", payload)
                /\ requests'[i].response.action = "stop-acknowledged"
                       => InClass("stop", payload)
                /\ requests'[i].handler = "handleProjectUpdate"
                       => InClass("mention-update", payload)
                /\ requests'[i].handler = "handleProjectUpdateComment"
                       => InClass("thread-reply", payload)
                /\ Ignored(payload)
                       => /\ requests'[i].response = Response(200, None, None, FALSE)
                          /\ requests'[i].handler = None
                          /\ runs' = runs
                          /\ processedSessions' = processedSessions
                          /\ runningAgents' = runningAgents
                          /\ StoreEntries' = StoreEntries]_vars

\* The step is a restart of the process.
Restarted == budget'.restarts < budget.restarts

\* The requests that were answered before the last restart.
OldRequests == {j \in DOMAIN requests : requests[j].pc = "old"}

\* C33: a restart leaves the Session Registry and the Cancellation Registry
\* empty and the entries of the Resumption Store as they were; the first
\* event after a restart whose key started a run before the restart starts a
\* run again, and a follow-up run that starts the agent after a restart resumes
\* with the entry of the store.
RestartForgetsRegistriesOnly ==
    [][/\ Restarted
          => /\ processedSessions' = EmptyMap
             /\ runningAgents' = EmptyMap
             /\ StoreEntries' = StoreEntries
       /\ \A i \in DOMAIN requests :
            (/\ requests[i].pc = "body"
             /\ requests'[i].pc = "done"
             /\ \E j \in OldRequests :
                    /\ j \in DOMAIN runs
                    /\ requests[j].payload = requests[i].payload
             /\ \A j \in DOMAIN requests :
                    requests[j].pc = "done"
                        => KeyOf(requests[j].payload) # KeyOf(requests[i].payload))
            => /\ i \in DOMAIN runs'
               /\ requests'[i].response = Response(200, None, None, FALSE)
       /\ \A r \in DOMAIN runs :
            (/\ runs[r].pc = "resolve"
             /\ runs'[r].pc = "stream"
             /\ runs[r].followUp
             /\ runs[r].session \in DOMAIN StoreEntries)
            => runs'[r].existing = StoreEntries[runs[r].session]]_vars

\* A follow-up started a run that recorded the conversation c2; after a
\* restart the same follow-up was delivered again and started a run, which
\* resumes c2.
RestartForgetsRegistriesOnlyWitness ==
    \E i, j \in DOMAIN requests :
        /\ requests[j].pc = "old"
        /\ j \in DOMAIN runs
        /\ runs[j].sets = <<"c2">>
        /\ requests[i].pc = "done"
        /\ requests[i].payload = requests[j].payload
        /\ i \in DOMAIN runs
        /\ runs[i].followUp
        /\ runs[i].existing = "c2"

\* The session whose handler takes the step or, in a step of no handler,
\* whose run takes it.
Acting ==
    LET handlers == {j \in DOMAIN requests : requests'[j] # requests[j]}
    IN  IF handlers # {}
        THEN {requests[i].payload.session : i \in handlers}
        ELSE {runs[r].session : r \in {q \in DOMAIN runs : runs'[q] # runs[q]}}

\* The step of a session leaves what the controller holds for the other
\* sessions as it was; if lenient, an entry of the Session Registry that has
\* expired at the time of the step may be removed.
Isolated(lenient) ==
    Acting # {} =>
        /\ \A B \in Sessions \ Acting :
               /\ (B \in DOMAIN runningAgents) = (B \in DOMAIN runningAgents')
               /\ B \in DOMAIN runningAgents => runningAgents'[B] = runningAgents[B]
               /\ (B \in DOMAIN StoreEntries) = (B \in DOMAIN StoreEntries')
               /\ B \in DOMAIN StoreEntries => StoreEntries'[B] = StoreEntries[B]
               /\ \A r \in DOMAIN runs : runs[r].session = B => runs'[r] = runs[r]
        /\ \/ processedSessions' = processedSessions
           \/ LET before == DOMAIN processedSessions
                   after == DOMAIN processedSessions'
               IN  /\ \A k \in after \ before : k[1] \in Acting
                   /\ \A k \in before \ after :
                          \/ k[1] \in Acting
                          \/ lenient /\ now' - processedSessions[k] > SESSION_TTL_MS
                   /\ \A k \in before \cap after :
                          \/ k[1] \in Acting
                          \/ processedSessions'[k] = processedSessions[k]

\* C34 as stated: a step of a handler or of a run of one session leaves the
\* cancellation handle, the runs, the dedup entries and the resumption entry
\* of every other session unchanged.
SessionIsolation == [][Isolated(FALSE)]_vars

\* C34, amended: a step of a handler or of a run of one session leaves the
\* cancellation handle, the runs and the resumption entry of every other
\* session unchanged, and its dedup entries except those that have expired,
\* which the step may remove.
SessionIsolationButExpired == [][Isolated(TRUE)]_vars

\* Runs of s1 and s2 are in flight, each with its own handle; the run of s2
\* recorded a conversation and the entry of s1 is the one it had before.
SessionIsolationButExpiredWitness ==
    \E r \in DOMAIN runs :
        /\ runs[r].session = "s2"
        /\ runs[r].sets = <<"c2">>
        /\ DOMAIN runningAgents = {"s1", "s2"}
        /\ runningAgents["s2"] = r
        /\ StoreEntries = [s \in {"s1", "s2"} |-> IF s = "s1" THEN "c1" ELSE "c2"]

\* C35: on a store whose file was missing, unreadable, no JSON or no JSON
\* object, get returns for every session id the value of the last set that
\* no delete follows, and nothing before any set: the load gave the empty
\* mapping, and get, set and delete work on it.
CorruptLoadsEmpty ==
    \A k \in CorruptKeys : SessionStoreGet(sessionStore, file, k) = LastSet(ledger, k)

\* The store loaded a file that holds a JSON array and has the empty
\* mapping; a delete found nothing to remove and left the file.
CorruptLoadsEmptyWitness ==
    /\ file = BadFile("array")
    /\ sessionStore = [loaded |-> TRUE, data |-> EmptyMap]
    /\ ledger = <<DeleteCall("s1")>>

\* The handler of request j, a mention-update or a thread reply, takes its step.
UpdateHandledNow(j) ==
    /\ HandledNow(j)
    /\ \/ isProjectUpdateMention(requests[j].payload)
       \/ isProjectUpdateCommentForClaude(requests[j].payload)

\* C36: the step of the handler for a mention-update or a thread reply
\* answers skipped "duplicate" if the id of the event was recorded within the
\* TTL, else skipped "self-trigger" if the agent wrote the event, and in both
\* cases starts no handler and records nothing; a step that starts the handler
\* has recorded the id.
UpdateGuards ==
    [][\A j \in DOMAIN requests :
         UpdateHandledNow(j) =>
            LET payload == requests[j].payload
                key == <<payload.data.id>>
            IN  IF isSessionProcessed(processedSessions, key, now')
                THEN /\ requests'[j].response = Response(200, "duplicate", None, FALSE)
                     /\ requests'[j].handler = None
                     /\ processedSessions' = processedSessions
                ELSE IF payload.data.userId = AgentId
                THEN /\ requests'[j].response = Response(200, "self-trigger", None, FALSE)
                     /\ requests'[j].handler = None
                     /\ processedSessions' = processedSessions
                ELSE requests'[j].handler # None
                        => isSessionProcessed(processedSessions', key, now')]_vars

\* C38: the step of the handler for a mention-update whose id is not recorded
\* answers skipped "self-trigger" exactly if the author id of the update and
\* the agent id of the payload are both present and equal; otherwise it
\* starts the handler.
UpdateSelfTriggerNeedsBothIds ==
    [][\A j \in DOMAIN requests :
         (/\ HandledNow(j)
          /\ isProjectUpdateMention(requests[j].payload)
          /\ ~isSessionProcessed(processedSessions, <<requests[j].payload.data.id>>, now'))
         => LET payload == requests[j].payload
                both == /\ payload.data.userId # None
                        /\ payload.appUserId # None
                        /\ payload.data.userId = payload.appUserId
            IN  IF both
                THEN /\ requests'[j].response.skipped = "self-trigger"
                     /\ requests'[j].handler = None
                ELSE /\ requests'[j].response.skipped = None
                     /\ requests'[j].handler = "handleProjectUpdate"]_vars

\* The runs that follow-ups without a sub-event id of session s started less
\* than a TTL before the time t.
UnknownRunsWithin(s, t) ==
    {r \in DOMAIN runs :
        /\ IsFollowUp(requests[r].payload)
        /\ requests[r].payload.activityId = None
        /\ runs[r].session = s
        /\ t - runs[r].at < SESSION_TTL_MS}

\* C37: follow-ups whose sub-event has no id share one key per session: the
\* step of the handler for such a follow-up answers skipped "duplicate" and
\* starts no run if an id-less follow-up of the same session, with whatever
\* message, started a run less than a TTL ago; otherwise it starts a run.
UnknownSharesKey ==
    [][\A j \in DOMAIN requests :
         (/\ HandledNow(j)
          /\ IsFollowUp(requests[j].payload)
          /\ requests[j].payload.activityId = None)
         => IF UnknownRunsWithin(requests[j].payload.session, now') # {}
            THEN /\ requests'[j].response = Duplicate
                 /\ j \notin DOMAIN runs'
                 /\ processedSessions' = processedSessions
            ELSE /\ requests'[j].response = Received
                 /\ j \in DOMAIN runs']_vars

\* Two id-less follow-ups of s1 with different messages, handled within the
\* TTL: the first started a run, the second was skipped as duplicate.
UnknownSharesKeyWitness ==
    \E i, j \in DOMAIN requests :
        /\ i < j
        /\ requests[i].payload = PromptedPayload("s1", UserId, AgentId, FALSE, None, None, "msg")
        /\ requests[j].payload = PromptedPayload("s1", UserId, AgentId, FALSE, None, None, "more")
        /\ i \in DOMAIN runs
        /\ requests[j].pc = "done"
        /\ requests[j].response = Duplicate
        /\ j \notin DOMAIN runs
        /\ now - runs[i].at < SESSION_TTL_MS

\* The stop requests of session s that were answered cancelled: true.
CancellingStops(s) ==
    {i \in DOMAIN requests :
        /\ IsStop(requests[i].payload)
        /\ requests[i].payload.session = s
        /\ Handled(i)
        /\ requests[i].response.cancelled}

\* C39: stop signals are not deduplicated and are idempotent. The step of the
\* handler for a stop of session s never answers skipped and records no dedup
\* key; it leaves s without a handle, and it answers cancelled: true only for
\* a handle that no earlier stop has cancelled. A stop that finds no handle
\* answers cancelled: false, aborts nothing and emits no activity (it
\* returns without waiting for a call of the tracker). Only a step that starts
\* a run of s gives s a handle: a second stop with no new run in between
\* finds none.
StopIdempotent ==
    [][/\ \A j \in DOMAIN requests :
            (/\ HandledNow(j)
             /\ IsStop(requests[j].payload)
             /\ requests[j].payload.session # None)
            => LET s == requests[j].payload.session
               IN  /\ s \notin DOMAIN runningAgents'
                   /\ requests'[j].response.skipped = None
                   /\ requests'[j].response.action = "stop-acknowledged"
                   /\ processedSessions' = processedSessions
                   /\ requests'[j].response.cancelled = (s \in DOMAIN runningAgents)
                   /\ s \in DOMAIN runningAgents
                         => \A i \in CancellingStops(s) :
                               requests[i].stopped # requests'[j].stopped
                   /\ s \notin DOMAIN runningAgents
                         => /\ runs' = runs
                            /\ activities' = activities
                            /\ requests'[j].pc = "done"
       /\ \A s \in Sessions :
            (s \notin DOMAIN runningAgents /\ s \in DOMAIN runningAgents')
            => \E r \in DOMAIN runs' \ DOMAIN runs : runs'[r].session = s
       /\ \A s \in Sessions :
            Len(SelectSeq(activities'[s], LAMBDA a : a.what = "stopack"))
               > Len(SelectSeq(activities[s], LAMBDA a : a.what = "stopack"))
            => \E i \in CancellingStops(s) :
                  requests[i].pc = "stop_emit" /\ requests'[i].pc = "done"]_vars

\* Two stops of s1 after its one run: the first was answered cancelled: true
\* and emitted the stop activity, the second cancelled: false, and the log of
\* s1 holds one stop activity.
StopIdempotentWitness ==
    \E i, j \in DOMAIN requests :
        /\ i # j
        /\ IsStop(requests[i].payload) /\ IsStop(requests[j].payload)
        /\ requests[i].payload.session = "s1" /\ requests[j].payload.session = "s1"
        /\ requests[i].pc = "done"
        /\ requests[i].response = Response(200, None, "stop-acknowledged", TRUE)
        /\ requests[j].pc = "done"
        /\ requests[j].response = Response(200, None, "stop-acknowledged", FALSE)
        /\ DOMAIN runs = {requests[i].stopped}
        /\ runs[requests[i].stopped].aborted
        /\ Len(SelectSeq(Log("s1"), LAMBDA a : a.what = "stopack")) = 1
====
